---- MODULE Spec2Model ----
(***************************************************************************)
(* Screenshot question-answering agent: the watcher (watcher.py) with its  *)
(* event handler, its queue and its single worker, and the read side of    *)
(* the two viewers (viewer.py, viewer_bottom.py).                          *)
(*                                                                         *)
(* Text is a sequence of tokens.  The tokens "-", "\n" and " " are single  *)
(* characters; every other token is an atom: a run of characters holding   *)
(* no dash next to a line end and no white space at either end, so that    *)
(* searching for the delimiter and stripping white space act on the token  *)
(* sequence exactly as they act on the characters.                         *)
(***************************************************************************)
EXTENDS Integers, Sequences, FiniteSets, TLC

\* ------------------------------------------------------------------ bounds
MaxCreates == 2      \* creation/removal operations of the environment
MaxViews == 1        \* viewer requests

\* ------------------------------------------------------------------ text
NL == "\n"
DASH == "-"
SP == " "
Whitespace == {NL, SP}

\* "---\n", the literal searched for in watcher.py and viewer_bottom.py
DELIM == <<DASH, DASH, DASH, NL>>

IsAt(s, pat, i) ==   \* pat occurs in s at 0-based offset i
    /\ i + Len(pat) <= Len(s)
    /\ SubSeq(s, i + 1, i + Len(pat)) = pat

\* str.find(pat): lowest 0-based offset of pat in s, -1 when there is none
Find(s, pat) ==
    LET hits == {i \in 0..Len(s) : IsAt(s, pat, i)}
    IN  IF hits = {} THEN -1
        ELSE CHOOSE i \in hits : \A j \in hits : i <= j

Slice(s, a, b) == SubSeq(s, a + 1, b)      \* s[a:b]
From(s, a) == SubSeq(s, a + 1, Len(s))     \* s[a:]

\* str.split(sep): the pieces between the non-overlapping occurrences of sep,
\* found left to right
RECURSIVE Split(_, _)
Split(s, sep) ==
    LET i == Find(s, sep)
    IN  IF i = -1 THEN <<s>>
        ELSE <<Slice(s, 0, i)>> \o Split(From(s, i + Len(sep)), sep)

\* str.split(sep, 1)
SplitOnce(s, sep) ==
    LET i == Find(s, sep)
    IN  IF i = -1 THEN <<s>>
        ELSE <<Slice(s, 0, i), From(s, i + Len(sep))>>

RECURSIVE LStrip(_)
LStrip(s) ==
    IF s # <<>> /\ Head(s) \in Whitespace THEN LStrip(Tail(s)) ELSE s

RECURSIVE RStrip(_)
RStrip(s) ==
    IF s # <<>> /\ s[Len(s)] \in Whitespace
    THEN RStrip(SubSeq(s, 1, Len(s) - 1)) ELSE s

\* the text as it came
NoStrip(s) == s

\* str.strip()
Strip(s) == LStrip(RStrip(s))

\* sep.join(list)
RECURSIVE Join(_, _)
Join(list, sep) ==
    IF list = <<>> THEN <<>>
    ELSE IF Len(list) = 1 THEN list[1]
    ELSE list[1] \o sep \o Join(Tail(list), sep)

RECURSIVE Concat(_)
Concat(list) == IF list = <<>> THEN <<>> ELSE Head(list) \o Concat(Tail(list))

RECURSIVE Reverse(_)
Reverse(list) ==
    IF list = <<>> THEN <<>> ELSE Reverse(Tail(list)) \o <<Head(list)>>

RECURSIVE SelectSeqNonEmpty(_)
\* [q for q in questions if q.strip()]
SelectSeqNonEmpty(list) ==
    IF list = <<>> THEN <<>>
    ELSE (IF Strip(Head(list)) # <<>> THEN <<Head(list)>> ELSE <<>>)
         \o SelectSeqNonEmpty(Tail(list))

\* ------------------------------------------------------------- file names
\* A file name is a token sequence: the stem's tokens, then the extension
\* (a token starting with ".") when there is one.  The watched directory
\* is not recursive, so a path is its file name.
Exts == {".png", ".PNG", ".jpg", ".mov", ".pdf"}
Digit(k) == <<"1", "2", "3", "4", "5", "6", "7", "8", "9">>[k]

ScreenPng == <<"screen", ".png">>
Screen1Png == <<"screen", "_", "1", ".png">>
PhotoPng == <<"photo", ".png">>
ScreenMov == <<"screen", ".mov">>
ScreenDir == <<"screens">>

\* Path.stem and Path.suffix
PathSuffix(name) ==
    IF name # <<>> /\ name[Len(name)] \in Exts THEN <<name[Len(name)]>> ELSE <<>>
PathStem(name) == SubSeq(name, 1, Len(name) - Len(PathSuffix(name)))

\* mimetypes.guess_type(filepath)[0], by extension (looked up as written,
\* then in lower case)
GuessType(name) ==
    IF PathSuffix(name) \in {<<".png">>, <<".PNG">>} THEN "image/png"
    ELSE IF PathSuffix(name) = <<".jpg">> THEN "image/jpeg"
    ELSE IF PathSuffix(name) = <<".mov">> THEN "video/quicktime"
    ELSE IF PathSuffix(name) = <<".pdf">> THEN "application/pdf"
    ELSE "None"

\* watcher.py 116-119: mime_type and mime_type.startswith('image')
is_image_file(name) == GuessType(name) \in {"image/png", "image/jpeg"}

\* str.lower() of the first atom of a name
Lower(atom) ==
    IF atom \in {"Screenshot"} THEN "screenshot"
    ELSE IF atom \in {"Screen Shot"} THEN "screen shot"
    ELSE IF atom \in {"SCREEN"} THEN "screen"
    ELSE IF atom \in {"My screen"} THEN "my screen"
    ELSE atom
\* atoms that start with "screen"
StartsWithScreenLower(atom) == atom \in {"screen", "screens", "screenshot", "screen shot"}

\* the name test without the lower-cased alternative
MatchesScreenshotNameAsWritten(name) ==
    \/ name[1] \in {"Screen Shot"}
    \/ name[1] \in {"Screenshot"}
    \/ StartsWithScreenLower(name[1])

\* watcher.py 318-320
MatchesScreenshotName(name) ==
    \/ name[1] \in {"Screen Shot"}
    \/ name[1] \in {"Screenshot"}
    \/ StartsWithScreenLower(Lower(name[1]))

\* ------------------------------------------------------------- answer log
Title == "# Screenshot Answers"
Started == "Started: "
TS == "<time>"   \* datetime.now().strftime('%Y-%m-%d %H:%M:%S'): one atom,
                 \* its dashes stand between digits
Heading == "## Screenshot: "
TimeLabel == "**Time:** "

\* the header process_screenshot synthesizes when the file is absent (231)
DefaultHeader == <<Title, NL, NL, Started, TS, NL, NL>> \o DELIM
\* the header main writes when the file is absent (354-356)
MainHeader == <<Title, NL, NL, Started, TS, NL, NL>> \o DELIM \o <<NL>>

\* watcher.py 243-246
NewEntry(name, answer) ==
    <<NL, Heading>> \o name \o <<NL, TimeLabel, TS, NL, NL>>
    \o answer \o <<NL, NL>> \o DELIM

\* a block without its time line
DirectEntryNoTime(name, answer) ==
    <<NL, Heading>> \o name \o <<NL>> \o answer \o <<NL, NL>> \o DELIM

\* test_direct.py 47-50: the four writes of the direct script
DirectEntry(name, answer) ==
    (<<NL, Heading>> \o name \o <<NL>>)
    \o <<TimeLabel, TS, NL, NL>>
    \o (answer \o <<NL, NL>>)
    \o DELIM

\* watcher.py 227-248: the new content of the log, from the file as it is
\* (file.exists, file.content), the file's name and the answer
NewContent(file, name, answer) ==
    LET existing_content == IF file.exists THEN file.content ELSE DefaultHeader
        header_end == Find(existing_content, DELIM)
        header == IF header_end # -1
                  THEN Slice(existing_content, 0, header_end + 4)
                  ELSE existing_content
        rest == IF header_end # -1
                THEN From(existing_content, header_end + 4)
                ELSE <<>>
    IN  header \o NewEntry(name, answer) \o rest

\* the reordering with the delimiter left off the header
ChronologicalBareHeader(content) ==
    LET parts == SplitOnce(content, DELIM)
        header == parts[1]
        body == IF Len(parts) > 1 THEN parts[2] ELSE <<>>
        questions == Reverse(SelectSeqNonEmpty(Split(body, DELIM)))
    IN  header \o Join(questions, <<NL>> \o DELIM)

\* viewer_bottom.py 49-61
Chronological(content) ==
    LET parts == SplitOnce(content, DELIM)
        header == parts[1] \o DELIM
        body == IF Len(parts) > 1 THEN parts[2] ELSE <<>>
        questions == Reverse(SelectSeqNonEmpty(Split(body, DELIM)))
    IN  header \o Join(questions, <<NL>> \o DELIM)

\* ----------------------------------------------------------------- archive
\* watcher.py 257-265: the free name the file is moved to.  dir is the set of
\* names in PROCESSED_DIR.
\* f"{stem}_{counter}{suffix}"
Suffixed(name, counter) ==
    PathStem(name) \o <<"_", Digit(counter)>> \o PathSuffix(name)

RECURSIVE ProcessedPathFrom(_, _, _, _)
ProcessedPathFrom(dir, name, processed_path, counter) ==
    IF processed_path \in dir
    THEN ProcessedPathFrom(dir, name, Suffixed(name, counter), counter + 1)
    ELSE processed_path

\* the move without the loop that looks for a free name
ProcessedPathUnchecked(dir, name) == name

ProcessedPath(dir, name) == ProcessedPathFrom(dir, name, name, 1)

\* ------------------------------------------------------------------ state
VARIABLES
    watched,      \* SCREENSHOTS_DIR: file name -> [id, size]
    archive,      \* PROCESSED_DIR: file name -> id of the file stored there
    answersFile,  \* ANSWERS_FILE: [exists, content]
    statusFile,   \* STATUS_FILE: [exists, filename, status, details]
    events,       \* the observer's pending creation events
    observer,     \* "unstarted", "running", "stopped"
    hpc, hpath,   \* on_created: "idle" or "settling" (time.sleep), and its filepath
    processing,   \* ScreenshotHandler.processing
    screenshot_queue,
    mpc,          \* position of main()
    wpc,          \* position of the worker thread
    screenshot_path, image_data, answer, new_content, err,  \* locals of the job
    nCreated, nViews,  \* operations of the environment so far
    viewed,       \* what the last viewer request read: [ok, content]
    served,       \* reversed_content of the last viewer_bottom request
    \* history
    putHist,      \* every item put on screenshot_queue, in order
    runHist,      \* every path process_screenshot was called with, in order
    running,      \* process_screenshot calls in progress
    lateWriters,  \* who wrote the log or the status after the worker started
    committed,    \* the complete documents the log has held
    log0,         \* the log file as the first job found it
    inserted,     \* the entry blocks written since, in order
    jobLog,       \* the log file when the current job started
    jobArchive,   \* the archive when the current job started
    damaged,      \* a log write failed after truncating the file
    decisions,    \* what on_created did with each event: [path, outcome]
    statusOutcome, \* how the job's last update_status call went
    config,       \* the configuration: [api_key, provider, library, prompt]
    configFile,   \* CONFIG_FILE: [exists, value, writer]
    statusServed, \* what the last /status.json request of a viewer got
    request,      \* what the job sent to the provider
    response      \* the text the provider returned, as it came

vars == <<watched, archive, answersFile, statusFile, events, observer, hpc, hpath,
          processing, screenshot_queue, mpc, wpc, screenshot_path, image_data,
          answer, new_content, err, nCreated, nViews, viewed, served, putHist,
          runHist, running, lateWriters, committed, log0, inserted, jobLog,
          jobArchive, damaged, decisions, statusOutcome, config, request,
          response, configFile, statusServed>>

None == <<>>     \* the poison pill main puts on the queue

Absent == [exists |-> FALSE, content |-> <<>>]
File(content) == [exists |-> TRUE, content |-> content]

NoStatus == [exists |-> FALSE, filename |-> <<>>, status |-> "", details |-> ""]
EmptyStatus == [exists |-> TRUE, filename |-> <<>>, status |-> "", details |-> ""]

EmptyDir == [n \in {} |-> 0]
Put(dir, name, v) == [n \in DOMAIN dir \cup {name} |-> IF n = name THEN v ELSE dir[n]]
Drop(dir, name) == [n \in DOMAIN dir \ {name} |-> dir[n]]

\* ------------------------------------------------------------ configuration
\* config.json (watcher.py 48-71): the api key, the provider as it is written
\* in the file (Missing: the file has no such key), whether the library of
\* the chosen provider can be imported, and the prompt, a string or a list
\* of lines
Missing == "<missing>"
PromptText == <<"Analyze", SP, "this", NL, NL, "Question:">>
PromptLines == <<<<"Analyze", SP, "this">>, <<>>, <<"Question:">>>>
Prompts == {[list |-> FALSE, value |-> <<PromptText>>],
            [list |-> TRUE, value |-> PromptLines]}

Configs == [api_key : {"", "key"},
            provider : {"openai", "anthropic", "gemini", "OpenAI", "azure", Missing},
            library : BOOLEAN,
            prompt : Prompts]

\* str.lower() of a provider name
LowerProvider(name) == IF name = "OpenAI" THEN "openai" ELSE name

\* config.get("provider", "openai").lower() (watcher.py 78, 156)
ProviderOf(cfg) ==
    LowerProvider(IF cfg.provider = Missing THEN "openai" ELSE cfg.provider)

\* watcher.py 70-71: a prompt given as a list is joined with line ends
JoinedPrompt(prompt) ==
    IF prompt.list THEN [list |-> FALSE, value |-> <<Join(prompt.value, <<NL>>)>>]
    ELSE prompt

\* a startup that does not look at the provider
ConfigAcceptedAnyProvider(cfg) ==
    /\ cfg.api_key # ""
    /\ cfg.library

\* watcher.py 74-102: the module goes on to main (FALSE: it calls exit(1))
ConfigAccepted(cfg) ==
    /\ cfg.api_key # ""
    /\ ProviderOf(cfg) \in {"openai", "anthropic", "gemini"}
    /\ cfg.library

\* a configuration the module accepts
OpenAIConfig == [api_key |-> "key", provider |-> "openai", library |-> TRUE,
                 prompt |-> [list |-> FALSE, value |-> <<PromptText>>]]

\* the configuration load_config writes when there is no file (54-61)
DefaultConfig == [api_key |-> "", provider |-> "openai", library |-> TRUE,
                  prompt |-> [list |-> FALSE, value |-> <<PromptText>>]]

\* the variable config before load_config has returned
NoConfig == [api_key |-> "", provider |-> Missing, library |-> TRUE,
             prompt |-> [list |-> FALSE, value |-> <<<<>>>>]]

\* config.json as the user wrote it, and no config.json
ConfigFile(cfg) == [exists |-> TRUE, value |-> cfg, writer |-> "user"]
NoConfigFile == [exists |-> FALSE, value |-> NoConfig, writer |-> ""]

\* a load_config that makes up the default without writing it to the file
load_config_unsaved(file) ==
    [config |-> IF file.exists THEN file.value ELSE DefaultConfig,
     file |-> file]

\* load_config (watcher.py 48-65): the configuration it returns and the file
\* it leaves
load_config(file) ==
    IF file.exists
    THEN [config |-> file.value, file |-> file]
    ELSE [config |-> DefaultConfig,
          file |-> [exists |-> TRUE, value |-> DefaultConfig,
                    writer |-> "load_config"]]

\* the image as the request carries it: base64.b64encode(image_data) for
\* openai and anthropic (162, 188), the bytes themselves for gemini (217)
Base64(image) == [encoding |-> "base64", data |-> image]
Raw(image) == [encoding |-> "raw", data |-> image]

NoRequest == [provider |-> "", prompt |-> <<>>, image |-> Raw(0)]

\* process_screenshot, watcher.py 158-218: the request for the provider
RequestFor(cfg, image) ==
    [provider |-> ProviderOf(cfg),
     prompt |-> cfg.prompt.value[1],
     image |-> IF ProviderOf(cfg) = "gemini" THEN Raw(image) ELSE Base64(image)]

\* the names the environment creates in the watched directory
EventNames == {ScreenPng, Screen1Png, PhotoPng, ScreenMov}
\* the names among them that on_created accepts
ScreenshotNames == {ScreenPng, Screen1Png}
\* the files it creates: [name, size]; one of them is still empty when the
\* handler looks at it
EventFiles == [name : EventNames, size : {1}] \cup {[name |-> ScreenPng, size |-> 0]}

\* raw text of the provider's response: plain, with white space around it,
\* with a delimiter line inside it, ending in a rule of six dashes
Responses == {<<"A">>, <<NL, "B", SP>>}
LogResponses == Responses \cup {<<"Q", NL>> \o DELIM \o <<"R">>,
                                <<"T", NL, DASH, DASH, DASH, DASH, DASH, DASH, NL>>}

\* an entry left in the log by an earlier run
OldEntry == NewEntry(ScreenPng, <<"old">>)

\* the log file as a run may find it: absent, or with the entries of
\* earlier runs
InitLogs == {Absent, File(MainHeader \o OldEntry)}

\* the archive as a run may find it
InitArchives == {EmptyDir,
                 Put(EmptyDir, ScreenPng, 0),
                 Put(Put(EmptyDir, ScreenPng, 0), Screen1Png, 0)}

InitFiles(files, logs, archives) ==
    /\ configFile \in files
    /\ config = NoConfig
    /\ statusServed = NoStatus
    /\ request = NoRequest /\ response = <<>>
    /\ watched = EmptyDir
    /\ archive \in archives
    /\ answersFile \in logs
    /\ statusFile = NoStatus
    /\ events = <<>>
    /\ observer = "unstarted"
    /\ hpc = "idle" /\ hpath = None
    /\ processing = {}
    /\ screenshot_queue = <<>>
    /\ mpc = "load"
    /\ wpc = "unstarted"
    /\ screenshot_path = None /\ image_data = 0 /\ answer = <<>>
    /\ new_content = <<>> /\ err = ""
    /\ nCreated = 0 /\ nViews = 0
    /\ viewed = [ok |-> FALSE, content |-> <<>>]
    /\ served = <<>>
    /\ putHist = <<>> /\ runHist = <<>> /\ running = 0
    /\ lateWriters = {}
    /\ committed = IF answersFile.exists THEN {answersFile.content} ELSE {}
    /\ log0 = answersFile
    /\ inserted = <<>>
    /\ jobLog = Absent /\ jobArchive = EmptyDir
    /\ damaged = FALSE
    /\ decisions = <<>>
    /\ statusOutcome = ""

\* a run with the configurations configs in config.json
InitFrom(configs, logs, archives) ==
    InitFiles({ConfigFile(cfg) : cfg \in configs}, logs, archives)

\* a run under a configuration the module accepts
InitWith(logs, archives) == InitFrom({OpenAIConfig}, logs, archives)

Init == InitWith(InitLogs, InitArchives)

\* ------------------------------------------------------------ environment
\* A file appears in the watched directory (or is written again); the
\* running observer queues a creation event for it.
CreateFile(name, size) ==
    /\ UNCHANGED <<configFile, statusServed>>
    /\ UNCHANGED <<config, request, response>>
    /\ observer = "running"
    /\ nCreated < MaxCreates
    /\ nCreated' = nCreated + 1
    /\ watched' = Put(watched, name, [id |-> nCreated + 1, size |-> size])
    /\ events' = Append(events, [src_path |-> name, is_directory |-> FALSE])
    /\ UNCHANGED <<decisions, statusOutcome>>
    /\ UNCHANGED <<archive, answersFile, statusFile, observer, hpc, hpath,
                   processing, screenshot_queue, mpc, wpc, screenshot_path,
                   image_data, answer, new_content, err, nViews, viewed, served,
                   putHist, runHist, running, lateWriters, committed, log0,
                   inserted, jobLog, jobArchive, damaged>>

\* A directory appears in the watched directory.
CreateDir ==
    /\ UNCHANGED <<configFile, statusServed>>
    /\ UNCHANGED <<config, request, response>>
    /\ observer = "running"
    /\ nCreated < MaxCreates
    /\ nCreated' = nCreated + 1
    /\ events' = Append(events, [src_path |-> ScreenDir, is_directory |-> TRUE])
    /\ UNCHANGED <<decisions, statusOutcome>>
    /\ UNCHANGED <<watched, archive, answersFile, statusFile, observer, hpc, hpath,
                   processing, screenshot_queue, mpc, wpc, screenshot_path,
                   image_data, answer, new_content, err, nViews, viewed, served,
                   putHist, runHist, running, lateWriters, committed, log0,
                   inserted, jobLog, jobArchive, damaged>>

\* The user removes a file that no job has been queued for.
RemoveFile(name) ==
    /\ UNCHANGED <<configFile, statusServed>>
    /\ UNCHANGED <<config, request, response>>
    /\ nCreated < MaxCreates
    /\ name \in DOMAIN watched
    /\ name \notin processing
    /\ nCreated' = nCreated + 1
    /\ watched' = Drop(watched, name)
    /\ UNCHANGED <<decisions, statusOutcome>>
    /\ UNCHANGED <<archive, answersFile, statusFile, events, observer, hpc, hpath,
                   processing, screenshot_queue, mpc, wpc, screenshot_path,
                   image_data, answer, new_content, err, nViews, viewed, served,
                   putHist, runHist, running, lateWriters, committed, log0,
                   inserted, jobLog, jobArchive, damaged>>

\* ---------------------------------------------------------------- handler
\* ScreenshotHandler.on_created up to time.sleep (watcher.py 299-325).  The
\* observer's dispatcher thread calls it for one event at a time.
\* on_created without the check of self.processing
RejectionNoDedup(event) ==
    IF event.is_directory THEN "directory"
    ELSE IF ~is_image_file(event.src_path) THEN "not an image"
    ELSE IF ~MatchesScreenshotName(event.src_path) THEN "name"
    ELSE ""

\* watcher.py 300-322: why on_created returns before the sleep ("": it does not)
Rejection(event) ==
    IF event.is_directory THEN "directory"
    ELSE IF ~is_image_file(event.src_path) THEN "not an image"
    ELSE IF event.src_path \in processing THEN "already processing"
    ELSE IF ~MatchesScreenshotName(event.src_path) THEN "name"
    ELSE ""

Accepts(event) == Rejection(event) = ""

OnCreated ==
    /\ UNCHANGED <<configFile, statusServed>>
    /\ UNCHANGED <<config, request, response>>
    /\ observer = "running"
    /\ hpc = "idle"
    /\ events # <<>>
    /\ events' = Tail(events)
    /\ IF Accepts(Head(events))
       THEN /\ hpc' = "settling" /\ hpath' = Head(events).src_path
            /\ decisions' = decisions
       ELSE /\ hpc' = "idle" /\ hpath' = None
            /\ decisions' = Append(decisions, [path |-> Head(events).src_path,
                                               outcome |-> Rejection(Head(events))])
    /\ UNCHANGED <<statusOutcome>>
    /\ UNCHANGED <<watched, archive, answersFile, statusFile, observer,
                   processing, screenshot_queue, mpc, wpc, screenshot_path,
                   image_data, answer, new_content, err, nCreated, nViews, viewed,
                   served, putHist, runHist, running, lateWriters, committed,
                   log0, inserted, jobLog, jobArchive, damaged>>

\* a handler that does not look at the file after the sleep
ValidatedUnseen(filepath) == TRUE

\* a handler that marks a file it found missing or empty as seen
OnCreatedSettledMarksInvalid ==
    /\ UNCHANGED <<configFile, statusServed>>
    /\ UNCHANGED <<config, request, response>>
    /\ hpc = "settling"
    /\ processing' = processing \cup {hpath}
    /\ IF hpath \in DOMAIN watched /\ watched[hpath].size > 0
       THEN /\ screenshot_queue' = Append(screenshot_queue, hpath)
            /\ putHist' = Append(putHist, hpath)
            /\ decisions' = Append(decisions, [path |-> hpath, outcome |-> "queued"])
       ELSE /\ decisions' = Append(decisions, [path |-> hpath, outcome |-> "invalid"])
            /\ UNCHANGED <<screenshot_queue, putHist>>
    /\ hpc' = "idle" /\ hpath' = None
    /\ UNCHANGED <<watched, archive, answersFile, statusFile, events, observer,
                   mpc, wpc, screenshot_path, image_data, answer, new_content,
                   err, nCreated, nViews, viewed, served, runHist, running,
                   lateWriters, committed, log0, inserted, jobLog, jobArchive,
                   damaged, statusOutcome>>

\* on_created after the sleep (watcher.py 327-330)
Validated(filepath) == filepath \in DOMAIN watched /\ watched[filepath].size > 0

OnCreatedSettled ==
    /\ UNCHANGED <<configFile, statusServed>>
    /\ UNCHANGED <<config, request, response>>
    /\ hpc = "settling"
    /\ IF Validated(hpath)
       THEN /\ processing' = processing \cup {hpath}
            /\ screenshot_queue' = Append(screenshot_queue, hpath)
            /\ putHist' = Append(putHist, hpath)
            /\ decisions' = Append(decisions, [path |-> hpath, outcome |-> "queued"])
       ELSE /\ decisions' = Append(decisions, [path |-> hpath, outcome |-> "invalid"])
            /\ UNCHANGED <<processing, screenshot_queue, putHist>>
    /\ hpc' = "idle" /\ hpath' = None
    /\ UNCHANGED <<statusOutcome>>
    /\ UNCHANGED <<watched, archive, answersFile, statusFile, events, observer,
                   mpc, wpc, screenshot_path, image_data, answer, new_content,
                   err, nCreated, nViews, viewed, served, runHist, running,
                   lateWriters, committed, log0, inserted, jobLog, jobArchive,
                   damaged>>

\* ------------------------------------------------------------------- main
WorkerStarted == wpc # "unstarted"

\* the module's call of load_config (watcher.py 67)
LoadConfig ==
    /\ mpc = "load"
    /\ mpc' = "configure"
    /\ config' = load_config(configFile).config
    /\ configFile' = load_config(configFile).file
    /\ UNCHANGED <<request, response, statusServed>>
    /\ UNCHANGED <<decisions, statusOutcome>>
    /\ UNCHANGED <<watched, archive, answersFile, statusFile, events, observer,
                   hpc, hpath, processing, screenshot_queue, wpc, screenshot_path,
                   image_data, answer, new_content, err, nCreated, nViews, viewed,
                   served, putHist, runHist, running, lateWriters, committed,
                   log0, inserted, jobLog, jobArchive, damaged>>

\* load_config whose write of the default file raises (watcher.py 62-63):
\* the open fails and there is still no file, or the dump fails behind the
\* open and leaves a file without a configuration; the exception leaves the
\* module and ends the process
LoadConfigFails ==
    /\ mpc = "load"
    /\ ~configFile.exists
    /\ mpc' = "crashed"
    /\ configFile' \in {configFile,
                        [exists |-> TRUE, value |-> NoConfig, writer |-> "load_config"]}
    /\ UNCHANGED <<config, request, response, statusServed>>
    /\ UNCHANGED <<decisions, statusOutcome>>
    /\ UNCHANGED <<watched, archive, answersFile, statusFile, events, observer,
                   hpc, hpath, processing, screenshot_queue, wpc, screenshot_path,
                   image_data, answer, new_content, err, nCreated, nViews, viewed,
                   served, putHist, runHist, running, lateWriters, committed,
                   log0, inserted, jobLog, jobArchive, damaged>>

\* the module's code before main (watcher.py 67-109): the prompt is joined,
\* and the process exits when the api key is empty, the provider is unknown
\* or its library is not installed
ModuleStartup ==
    /\ UNCHANGED <<configFile, statusServed>>
    /\ mpc = "configure"
    /\ config' = [config EXCEPT !.prompt = JoinedPrompt(config.prompt)]
    /\ mpc' = IF ConfigAccepted(config) THEN "init_answers" ELSE "exit_1"
    /\ UNCHANGED <<request, response>>
    /\ UNCHANGED <<decisions, statusOutcome>>
    /\ UNCHANGED <<watched, archive, answersFile, statusFile, events, observer,
                   hpc, hpath, processing, screenshot_queue, wpc, screenshot_path,
                   image_data, answer, new_content, err, nCreated, nViews, viewed,
                   served, putHist, runHist, running, lateWriters, committed,
                   log0, inserted, jobLog, jobArchive, damaged>>

\* main, watcher.py 352-356
MainInitAnswers ==
    /\ UNCHANGED <<configFile, statusServed>>
    /\ UNCHANGED <<config, request, response>>
    /\ mpc = "init_answers"
    /\ mpc' = "start_worker"
    /\ IF ~answersFile.exists
       THEN /\ answersFile' = File(MainHeader)
            /\ committed' = committed \cup {MainHeader}
            /\ log0' = File(MainHeader)
            /\ lateWriters' = IF WorkerStarted THEN lateWriters \cup {"main"}
                              ELSE lateWriters
       ELSE UNCHANGED <<answersFile, committed, log0, lateWriters>>
    /\ UNCHANGED <<decisions, statusOutcome>>
    /\ UNCHANGED <<watched, archive, statusFile, events, observer, hpc, hpath,
                   processing, screenshot_queue, wpc, screenshot_path, image_data,
                   answer, new_content, err, nCreated, nViews, viewed, served,
                   putHist, runHist, running, inserted, jobLog, jobArchive,
                   damaged>>

\* main, watcher.py 359-360
MainStartWorker ==
    /\ UNCHANGED <<configFile, statusServed>>
    /\ UNCHANGED <<config, request, response>>
    /\ mpc = "start_worker"
    /\ mpc' = "start_observer"
    /\ wpc' = "get"
    /\ UNCHANGED <<decisions, statusOutcome>>
    /\ UNCHANGED <<watched, archive, answersFile, statusFile, events, observer,
                   hpc, hpath, processing, screenshot_queue, screenshot_path,
                   image_data, answer, new_content, err, nCreated, nViews, viewed,
                   served, putHist, runHist, running, lateWriters, committed,
                   log0, inserted, jobLog, jobArchive, damaged>>

\* main, watcher.py 363-366
MainStartObserver ==
    /\ UNCHANGED <<configFile, statusServed>>
    /\ UNCHANGED <<config, request, response>>
    /\ mpc = "start_observer"
    /\ mpc' = "sleep"
    /\ observer' = "running"
    /\ UNCHANGED <<decisions, statusOutcome>>
    /\ UNCHANGED <<watched, archive, answersFile, statusFile, events, hpc, hpath,
                   processing, screenshot_queue, wpc, screenshot_path, image_data,
                   answer, new_content, err, nCreated, nViews, viewed, served,
                   putHist, runHist, running, lateWriters, committed, log0,
                   inserted, jobLog, jobArchive, damaged>>

\* main, watcher.py 373-375: KeyboardInterrupt in the sleep loop, then
\* observer.stop(): no further event is dispatched
MainInterrupt ==
    /\ UNCHANGED <<configFile, statusServed>>
    /\ UNCHANGED <<config, request, response>>
    /\ mpc = "sleep"
    /\ mpc' = "put_none"
    /\ observer' = "stopped"
    /\ events' = <<>>
    /\ UNCHANGED <<decisions, statusOutcome>>
    /\ UNCHANGED <<watched, archive, answersFile, statusFile, hpc, hpath,
                   processing, screenshot_queue, wpc, screenshot_path, image_data,
                   answer, new_content, err, nCreated, nViews, viewed, served,
                   putHist, runHist, running, lateWriters, committed, log0,
                   inserted, jobLog, jobArchive, damaged>>

\* main, watcher.py 376
MainPutNone ==
    /\ UNCHANGED <<configFile, statusServed>>
    /\ UNCHANGED <<config, request, response>>
    /\ mpc = "put_none"
    /\ mpc' = "join"
    /\ screenshot_queue' = Append(screenshot_queue, None)
    /\ putHist' = Append(putHist, None)
    /\ UNCHANGED <<decisions, statusOutcome>>
    /\ UNCHANGED <<watched, archive, answersFile, statusFile, events, observer,
                   hpc, hpath, processing, wpc, screenshot_path, image_data,
                   answer, new_content, err, nCreated, nViews, viewed, served,
                   runHist, running, lateWriters, committed, log0, inserted,
                   jobLog, jobArchive, damaged>>

\* main, watcher.py 378-380: observer.join() and worker.join()
MainJoin ==
    /\ UNCHANGED <<configFile, statusServed>>
    /\ UNCHANGED <<config, request, response>>
    /\ mpc = "join"
    /\ hpc = "idle"
    /\ wpc = "stopped"
    /\ mpc' = "exit"
    /\ UNCHANGED <<decisions, statusOutcome>>
    /\ UNCHANGED <<watched, archive, answersFile, statusFile, events, observer,
                   hpc, hpath, processing, screenshot_queue, wpc, screenshot_path,
                   image_data, answer, new_content, err, nCreated, nViews, viewed,
                   served, putHist, runHist, running, lateWriters, committed,
                   log0, inserted, jobLog, jobArchive, damaged>>

\* ----------------------------------------------------------------- worker
\* update_status (watcher.py 121-133): the status file afterwards.  A failure
\* is swallowed; the file keeps its record when open() failed and is left
\* empty when the write failed after open() truncated it.  The actions take
\* the outcomes the file system allows as a parameter.
StatusOutcomes == {"ok", "open_failed", "write_failed"}

update_status(filename, status, details, outcome) ==
    IF outcome = "ok"
    THEN [exists |-> TRUE, filename |-> filename, status |-> status,
          details |-> details]
    ELSE IF outcome = "open_failed" THEN statusFile
    ELSE EmptyStatus

\* a queue that hands out its newest item
QueueGetLast(q) == [item |-> q[Len(q)], rest |-> SubSeq(q, 1, Len(q) - 1)]

\* screenshot_queue.get()
QueueGet(q) == [item |-> Head(q), rest |-> Tail(q)]

\* a worker that takes the poison pill for one more item and goes on waiting
WorkerGetPastPill ==
    /\ UNCHANGED <<configFile, statusServed>>
    /\ UNCHANGED <<config, request, response>>
    /\ wpc = "get"
    /\ screenshot_queue # <<>>
    /\ screenshot_queue' = QueueGet(screenshot_queue).rest
    /\ IF QueueGet(screenshot_queue).item = None
       THEN /\ wpc' = "get"
            /\ UNCHANGED <<screenshot_path, runHist, running, jobLog, jobArchive>>
       ELSE /\ wpc' = "begin"
            /\ screenshot_path' = QueueGet(screenshot_queue).item
            /\ runHist' = Append(runHist, QueueGet(screenshot_queue).item)
            /\ running' = running + 1
            /\ jobLog' = answersFile
            /\ jobArchive' = archive
    /\ UNCHANGED <<decisions, statusOutcome>>
    /\ UNCHANGED <<watched, archive, answersFile, statusFile, events, observer,
                   hpc, hpath, processing, mpc, image_data, answer, new_content,
                   err, nCreated, nViews, viewed, served, putHist, lateWriters,
                   committed, log0, inserted, damaged>>

\* queue_worker, watcher.py 285-290: take the next item; the poison pill ends
\* the loop, a path starts process_screenshot
WorkerGet ==
    /\ UNCHANGED <<configFile, statusServed>>
    /\ UNCHANGED <<config, request, response>>
    /\ wpc = "get"
    /\ screenshot_queue # <<>>
    /\ screenshot_queue' = QueueGet(screenshot_queue).rest
    /\ IF QueueGet(screenshot_queue).item = None
       THEN /\ wpc' = "stopped"
            /\ UNCHANGED <<screenshot_path, runHist, running, jobLog, jobArchive>>
       ELSE /\ wpc' = "begin"
            /\ screenshot_path' = QueueGet(screenshot_queue).item
            /\ runHist' = Append(runHist, QueueGet(screenshot_queue).item)
            /\ running' = running + 1
            /\ jobLog' = answersFile
            /\ jobArchive' = archive
    /\ UNCHANGED <<decisions, statusOutcome>>
    /\ UNCHANGED <<watched, archive, answersFile, statusFile, events, observer,
                   hpc, hpath, processing, mpc, image_data, answer, new_content,
                   err, nCreated, nViews, viewed, served, putHist, lateWriters,
                   committed, log0, inserted, damaged>>

\* a job whose first status write does not name its file
JobBeginUnnamed(outcomes) ==
    /\ UNCHANGED <<configFile, statusServed>>
    /\ UNCHANGED <<config, request, response>>
    /\ wpc = "begin"
    /\ \E o \in outcomes :
         /\ statusFile' = update_status(<<>>, "Processing", "Reading file...", o)
         /\ statusOutcome' = o
    /\ lateWriters' = lateWriters \cup {"worker"}
    /\ wpc' = "read"
    /\ UNCHANGED <<watched, archive, answersFile, events, observer, hpc, hpath,
                   processing, screenshot_queue, mpc, screenshot_path, image_data,
                   answer, new_content, err, nCreated, nViews, viewed, served,
                   putHist, runHist, running, committed, log0, inserted, jobLog,
                   jobArchive, damaged, decisions>>

\* process_screenshot, watcher.py 143
JobBegin(outcomes) ==
    /\ UNCHANGED <<configFile, statusServed>>
    /\ UNCHANGED <<config, request, response>>
    /\ wpc = "begin"
    /\ \E o \in outcomes :
         /\ statusFile' = update_status(screenshot_path, "Processing",
                                        "Reading file...", o)
         /\ statusOutcome' = o
    /\ lateWriters' = lateWriters \cup {"worker"}
    /\ wpc' = "read"
    /\ UNCHANGED <<decisions>>
    /\ UNCHANGED <<watched, archive, answersFile, events, observer, hpc, hpath,
                   processing, screenshot_queue, mpc, screenshot_path, image_data,
                   answer, new_content, err, nCreated, nViews, viewed, served,
                   putHist, runHist, running, committed, log0, inserted, jobLog,
                   jobArchive, damaged>>

\* process_screenshot, watcher.py 147-152
JobRead(outcomes) ==
    /\ UNCHANGED <<configFile, statusServed>>
    /\ UNCHANGED <<config, request, response>>
    /\ wpc = "read"
    /\ \/ /\ screenshot_path \in DOMAIN watched
          /\ image_data' = watched[screenshot_path].id
          /\ \E o \in outcomes :
               /\ statusFile' = update_status(screenshot_path, "Processing",
                                              "Sending to AI...", o)
               /\ statusOutcome' = o
          /\ lateWriters' = lateWriters \cup {"worker"}
          /\ wpc' = "ask"
          /\ err' = err
       \/ /\ err' = "read error"
          /\ wpc' = "except"
          /\ UNCHANGED <<image_data, statusFile, lateWriters, statusOutcome>>
    /\ UNCHANGED <<decisions>>
    /\ UNCHANGED <<watched, archive, answersFile, events, observer, hpc, hpath,
                   processing, screenshot_queue, mpc, screenshot_path, answer,
                   new_content, nCreated, nViews, viewed, served, putHist,
                   runHist, running, committed, log0, inserted, jobLog,
                   jobArchive, damaged>>

\* a provider call whose failure is turned into an empty answer
JobAskEmptyAnswer(responses) ==
    /\ UNCHANGED <<configFile, statusServed>>
    /\ wpc = "ask"
    /\ request' = RequestFor(config, image_data)
    /\ config' = config
    /\ \/ \E text \in responses :
            /\ response' = text
            /\ answer' = Strip(text)
            /\ err' = err
       \/ /\ err' = "provider error"
          /\ answer' = <<>>
          /\ response' = response
    /\ wpc' = "log_read"
    /\ UNCHANGED <<watched, archive, answersFile, statusFile, events, observer,
                   hpc, hpath, processing, screenshot_queue, mpc, screenshot_path,
                   image_data, new_content, nCreated, nViews, viewed, served,
                   putHist, runHist, running, lateWriters, committed, log0,
                   inserted, jobLog, jobArchive, damaged, decisions,
                   statusOutcome>>

\* process_screenshot, watcher.py 155-223: the provider returns text, which
\* is stripped, or the call raises
JobAsk(responses) ==
    /\ UNCHANGED <<configFile, statusServed>>
    /\ wpc = "ask"
    /\ request' = RequestFor(config, image_data)
    /\ config' = config
    /\ \/ \E text \in responses :
            /\ response' = text
            /\ answer' = Strip(text)
            /\ wpc' = "log_read"
            /\ err' = err
       \/ /\ err' = "provider error"
          /\ wpc' = "except"
          /\ answer' = answer
          /\ response' = response
    /\ UNCHANGED <<decisions, statusOutcome>>
    /\ UNCHANGED <<watched, archive, answersFile, statusFile, events, observer,
                   hpc, hpath, processing, screenshot_queue, mpc, screenshot_path,
                   image_data, new_content, nCreated, nViews, viewed, served,
                   putHist, runHist, running, lateWriters, committed, log0,
                   inserted, jobLog, jobArchive, damaged>>

\* process_screenshot, watcher.py 227-248
JobLogRead ==
    /\ UNCHANGED <<configFile, statusServed>>
    /\ UNCHANGED <<config, request, response>>
    /\ wpc = "log_read"
    /\ \/ /\ new_content' = NewContent(answersFile, screenshot_path, answer)
          /\ wpc' = "log_open"
          /\ err' = err
       \/ /\ answersFile.exists
          /\ err' = "log read error"
          /\ wpc' = "except"
          /\ new_content' = new_content
    /\ UNCHANGED <<decisions, statusOutcome>>
    /\ UNCHANGED <<watched, archive, answersFile, statusFile, events, observer,
                   hpc, hpath, processing, screenshot_queue, mpc, screenshot_path,
                   image_data, answer, nCreated, nViews, viewed, served, putHist,
                   runHist, running, lateWriters, committed, log0, inserted,
                   jobLog, jobArchive, damaged>>

\* process_screenshot, watcher.py 250: open(ANSWERS_FILE, 'w') truncates
JobLogOpen ==
    /\ UNCHANGED <<configFile, statusServed>>
    /\ UNCHANGED <<config, request, response>>
    /\ wpc = "log_open"
    /\ \/ /\ answersFile' = File(<<>>)
          /\ lateWriters' = lateWriters \cup {"worker"}
          /\ wpc' = "log_write"
          /\ err' = err
       \/ /\ err' = "log open error"
          /\ wpc' = "except"
          /\ UNCHANGED <<answersFile, lateWriters>>
    /\ UNCHANGED <<decisions, statusOutcome>>
    /\ UNCHANGED <<watched, archive, statusFile, events, observer, hpc, hpath,
                   processing, screenshot_queue, mpc, screenshot_path, image_data,
                   answer, new_content, nCreated, nViews, viewed, served, putHist,
                   runHist, running, committed, log0, inserted, jobLog,
                   jobArchive, damaged>>

\* process_screenshot, watcher.py 251: f.write(new_content) and the close
\* that flushes it; when that fails the file stays truncated
JobLogWrite ==
    /\ UNCHANGED <<configFile, statusServed>>
    /\ UNCHANGED <<config, request, response>>
    /\ wpc = "log_write"
    /\ \/ /\ answersFile' = File(new_content)
          /\ committed' = committed \cup {new_content}
          /\ inserted' = Append(inserted, NewEntry(screenshot_path, answer))
          /\ wpc' = "archive"
          /\ UNCHANGED <<err, damaged>>
       \/ /\ err' = "log write error"
          /\ damaged' = TRUE
          /\ wpc' = "except"
          /\ UNCHANGED <<answersFile, committed, inserted>>
    /\ UNCHANGED <<decisions, statusOutcome>>
    /\ UNCHANGED <<watched, archive, statusFile, events, observer, hpc, hpath,
                   processing, screenshot_queue, mpc, screenshot_path, image_data,
                   answer, new_content, nCreated, nViews, viewed, served, putHist,
                   runHist, running, lateWriters, log0, jobLog, jobArchive>>

\* a move whose failure takes the job's entry out of the log again
JobArchiveRollsBack ==
    /\ UNCHANGED <<configFile, statusServed>>
    /\ UNCHANGED <<config, request, response>>
    /\ wpc = "archive"
    /\ \/ /\ screenshot_path \in DOMAIN watched
          /\ archive' = Put(archive, ProcessedPath(DOMAIN archive, screenshot_path),
                            watched[screenshot_path].id)
          /\ watched' = Drop(watched, screenshot_path)
          /\ wpc' = "completed"
          /\ UNCHANGED <<err, answersFile>>
       \/ /\ err' = "move error"
          /\ wpc' = "except"
          /\ answersFile' = jobLog
          /\ UNCHANGED <<archive, watched>>
    /\ UNCHANGED <<decisions, statusOutcome>>
    /\ UNCHANGED <<statusFile, events, observer, hpc, hpath,
                   processing, screenshot_queue, mpc, screenshot_path, image_data,
                   answer, new_content, nCreated, nViews, viewed, served, putHist,
                   runHist, running, lateWriters, committed, log0, inserted,
                   jobLog, jobArchive, damaged>>

\* process_screenshot, watcher.py 257-267
JobArchive ==
    /\ UNCHANGED <<configFile, statusServed>>
    /\ UNCHANGED <<config, request, response>>
    /\ wpc = "archive"
    /\ \/ /\ screenshot_path \in DOMAIN watched
          /\ archive' = Put(archive, ProcessedPath(DOMAIN archive, screenshot_path),
                            watched[screenshot_path].id)
          /\ watched' = Drop(watched, screenshot_path)
          /\ wpc' = "completed"
          /\ err' = err
       \/ /\ err' = "move error"
          /\ wpc' = "except"
          /\ UNCHANGED <<archive, watched>>
    /\ UNCHANGED <<decisions, statusOutcome>>
    /\ UNCHANGED <<answersFile, statusFile, events, observer, hpc, hpath,
                   processing, screenshot_queue, mpc, screenshot_path, image_data,
                   answer, new_content, nCreated, nViews, viewed, served, putHist,
                   runHist, running, lateWriters, committed, log0, inserted,
                   jobLog, jobArchive, damaged>>

\* an update_status whose failure is raised into the job
JobCompletedRaises(outcomes) ==
    /\ UNCHANGED <<configFile, statusServed>>
    /\ UNCHANGED <<config, request, response>>
    /\ wpc = "completed"
    /\ \E o \in outcomes :
         /\ statusFile' = update_status(screenshot_path, "Completed",
                                        "Answer added to viewer", o)
         /\ statusOutcome' = o
         /\ IF o = "ok"
            THEN wpc' = "done" /\ err' = err /\ running' = running - 1
            ELSE wpc' = "except" /\ err' = "status error" /\ running' = running
    /\ lateWriters' = lateWriters \cup {"worker"}
    /\ UNCHANGED <<watched, archive, answersFile, events, observer, hpc, hpath,
                   processing, screenshot_queue, mpc, screenshot_path, image_data,
                   answer, new_content, nCreated, nViews, viewed, served,
                   putHist, runHist, committed, log0, inserted, jobLog,
                   jobArchive, damaged, decisions>>

\* process_screenshot, watcher.py 271-275
JobCompleted(outcomes) ==
    /\ UNCHANGED <<configFile, statusServed>>
    /\ UNCHANGED <<config, request, response>>
    /\ wpc = "completed"
    /\ \E o \in outcomes :
         /\ statusFile' = update_status(screenshot_path, "Completed",
                                        "Answer added to viewer", o)
         /\ statusOutcome' = o
    /\ lateWriters' = lateWriters \cup {"worker"}
    /\ running' = running - 1
    /\ wpc' = "done"
    /\ UNCHANGED <<decisions>>
    /\ UNCHANGED <<watched, archive, answersFile, events, observer, hpc, hpath,
                   processing, screenshot_queue, mpc, screenshot_path, image_data,
                   answer, new_content, err, nCreated, nViews, viewed, served,
                   putHist, runHist, committed, log0, inserted, jobLog,
                   jobArchive, damaged>>

\* an except clause that reports the error and raises it again: the
\* exception leaves queue_worker and the thread ends
JobExceptRaise(outcomes) ==
    /\ UNCHANGED <<configFile, statusServed>>
    /\ UNCHANGED <<config, request, response>>
    /\ wpc = "except"
    /\ \E o \in outcomes :
         /\ statusFile' = update_status(screenshot_path, "Error", err, o)
         /\ statusOutcome' = o
    /\ lateWriters' = lateWriters \cup {"worker"}
    /\ running' = running - 1
    /\ wpc' = "stopped"
    /\ UNCHANGED <<watched, archive, answersFile, events, observer, hpc, hpath,
                   processing, screenshot_queue, mpc, screenshot_path, image_data,
                   answer, new_content, err, nCreated, nViews, viewed, served,
                   putHist, runHist, committed, log0, inserted, jobLog,
                   jobArchive, damaged, decisions>>

\* process_screenshot, watcher.py 277-281
JobExcept(outcomes) ==
    /\ UNCHANGED <<configFile, statusServed>>
    /\ UNCHANGED <<config, request, response>>
    /\ wpc = "except"
    /\ \E o \in outcomes :
         /\ statusFile' = update_status(screenshot_path, "Error", err, o)
         /\ statusOutcome' = o
    /\ lateWriters' = lateWriters \cup {"worker"}
    /\ running' = running - 1
    /\ wpc' = "done"
    /\ UNCHANGED <<decisions>>
    /\ UNCHANGED <<watched, archive, answersFile, events, observer, hpc, hpath,
                   processing, screenshot_queue, mpc, screenshot_path, image_data,
                   answer, new_content, err, nCreated, nViews, viewed, served,
                   putHist, runHist, committed, log0, inserted, jobLog,
                   jobArchive, damaged>>

\* a worker that takes the path of the job that returned out of the set of
\* paths seen
WorkerTaskDoneForgets ==
    /\ UNCHANGED <<configFile, statusServed>>
    /\ wpc = "done"
    /\ wpc' = "get"
    /\ processing' = processing \ {screenshot_path}
    /\ screenshot_path' = None /\ image_data' = 0 /\ answer' = <<>>
    /\ new_content' = <<>> /\ err' = ""
    /\ jobLog' = Absent /\ jobArchive' = EmptyDir
    /\ statusOutcome' = ""
    /\ request' = NoRequest /\ response' = <<>>
    /\ UNCHANGED <<watched, archive, answersFile, statusFile, events, observer,
                   hpc, hpath, screenshot_queue, mpc, nCreated, config,
                   nViews, viewed, served, putHist, runHist, running,
                   lateWriters, committed, log0, inserted, damaged, decisions>>

\* a worker that returns after its first job
WorkerTaskDoneReturns ==
    /\ UNCHANGED <<configFile, statusServed>>
    /\ wpc = "done"
    /\ wpc' = "stopped"
    /\ screenshot_path' = None /\ image_data' = 0 /\ answer' = <<>>
    /\ new_content' = <<>> /\ err' = ""
    /\ jobLog' = Absent /\ jobArchive' = EmptyDir
    /\ statusOutcome' = ""
    /\ request' = NoRequest /\ response' = <<>>
    /\ config' = config
    /\ UNCHANGED <<decisions>>
    /\ UNCHANGED <<watched, archive, answersFile, statusFile, events, observer,
                   hpc, hpath, processing, screenshot_queue, mpc, nCreated,
                   nViews, viewed, served, putHist, runHist, running,
                   lateWriters, committed, log0, inserted, damaged>>

\* queue_worker, watcher.py 291, and back to the head of the loop
WorkerTaskDone ==
    /\ UNCHANGED <<configFile, statusServed>>
    /\ wpc = "done"
    /\ wpc' = "get"
    /\ screenshot_path' = None /\ image_data' = 0 /\ answer' = <<>>
    /\ new_content' = <<>> /\ err' = ""
    /\ jobLog' = Absent /\ jobArchive' = EmptyDir
    /\ statusOutcome' = ""
    /\ request' = NoRequest /\ response' = <<>>
    /\ config' = config
    /\ UNCHANGED <<decisions>>
    /\ UNCHANGED <<watched, archive, answersFile, statusFile, events, observer,
                   hpc, hpath, processing, screenshot_queue, mpc, nCreated,
                   nViews, viewed, served, putHist, runHist, running,
                   lateWriters, committed, log0, inserted, damaged>>

\* ---------------------------------------------------------------- viewers
\* viewer.py 40-46: serve_markdown reads the whole file (or answers 500)
ViewerServe ==
    /\ UNCHANGED <<configFile, statusServed>>
    /\ UNCHANGED <<config, request, response>>
    /\ nViews < MaxViews
    /\ nViews' = nViews + 1
    /\ viewed' = [ok |-> answersFile.exists, content |-> answersFile.content]
    /\ UNCHANGED <<decisions, statusOutcome>>
    /\ UNCHANGED <<watched, archive, answersFile, statusFile, events, observer,
                   hpc, hpath, processing, screenshot_queue, mpc, wpc,
                   screenshot_path, image_data, answer, new_content, err,
                   nCreated, served, putHist, runHist, running, lateWriters,
                   committed, log0, inserted, jobLog, jobArchive, damaged>>

\* a viewer that stores the reordered document
ViewerBottomServeStores ==
    /\ UNCHANGED <<configFile, statusServed>>
    /\ UNCHANGED <<config, request, response>>
    /\ nViews < MaxViews
    /\ nViews' = nViews + 1
    /\ viewed' = [ok |-> answersFile.exists, content |-> answersFile.content]
    /\ served' = IF answersFile.exists THEN Chronological(answersFile.content)
                 ELSE served
    /\ answersFile' = IF answersFile.exists
                      THEN File(Chronological(answersFile.content))
                      ELSE answersFile
    /\ UNCHANGED <<watched, archive, statusFile, events, observer,
                   hpc, hpath, processing, screenshot_queue, mpc, wpc,
                   screenshot_path, image_data, answer, new_content, err,
                   nCreated, putHist, runHist, running, lateWriters, committed,
                   log0, inserted, jobLog, jobArchive, damaged, decisions,
                   statusOutcome>>

\* viewer_bottom.py 38-61: serve_markdown reads the whole file and reverses
\* the order of its entries
ViewerBottomServe ==
    /\ UNCHANGED <<configFile, statusServed>>
    /\ UNCHANGED <<config, request, response>>
    /\ nViews < MaxViews
    /\ nViews' = nViews + 1
    /\ viewed' = [ok |-> answersFile.exists, content |-> answersFile.content]
    /\ served' = IF answersFile.exists THEN Chronological(answersFile.content)
                 ELSE served
    /\ UNCHANGED <<decisions, statusOutcome>>
    /\ UNCHANGED <<watched, archive, answersFile, statusFile, events, observer,
                   hpc, hpath, processing, screenshot_queue, mpc, wpc,
                   screenshot_path, image_data, answer, new_content, err,
                   nCreated, putHist, runHist, running, lateWriters, committed,
                   log0, inserted, jobLog, jobArchive, damaged>>

\* viewer_bottom.py 21-36: serve_file sends the bytes of status.json, or
\* '{}' when there is no such file
ViewerBottomServeFile ==
    /\ nViews < MaxViews
    /\ nViews' = nViews + 1
    /\ statusServed' = IF statusFile.exists THEN statusFile ELSE NoStatus
    /\ UNCHANGED <<config, request, response, configFile>>
    /\ UNCHANGED <<decisions, statusOutcome>>
    /\ UNCHANGED <<watched, archive, answersFile, statusFile, events, observer,
                   hpc, hpath, processing, screenshot_queue, mpc, wpc,
                   screenshot_path, image_data, answer, new_content, err,
                   nCreated, viewed, served, putHist, runHist, running,
                   lateWriters, committed, log0, inserted, jobLog, jobArchive,
                   damaged>>

\* ------------------------------------------------------------ direct script
\* the screenshot test_direct.py names (19)
DirectPng == <<"Screenshot", " 2025", ".png">>

\* test_direct.py 25-52, run once: the script asks the provider about its
\* screenshot and appends the block to answers.md, which open(..., 'a')
\* creates when it is not there.  (When the call raises the script prints
\* the error and changes nothing.)
DirectAppend(responses) ==
    /\ "direct" \notin lateWriters
    /\ lateWriters' = lateWriters \cup {"direct"}
    /\ \E text \in responses :
         /\ answersFile' = File(answersFile.content
                                \o DirectEntry(DirectPng, Strip(text)))
         /\ inserted' = Append(inserted, DirectEntry(DirectPng, Strip(text)))
    /\ committed' = committed \cup {answersFile'.content}
    /\ UNCHANGED <<config, request, response, configFile, statusServed>>
    /\ UNCHANGED <<decisions, statusOutcome>>
    /\ UNCHANGED <<watched, archive, statusFile, events, observer, hpc, hpath,
                   processing, screenshot_queue, mpc, wpc, screenshot_path,
                   image_data, answer, new_content, err, nCreated, nViews,
                   viewed, served, putHist, runHist, running, log0, jobLog,
                   jobArchive, damaged>>

\* ---------------------------------------------------------- specification
\* main up to its sleep loop
Startup ==
    \/ LoadConfig
    \/ ModuleStartup
    \/ MainInitAnswers
    \/ MainStartWorker
    \/ MainStartObserver

\* main from the interrupt on
Shutdown ==
    \/ MainInterrupt
    \/ MainPutNone
    \/ MainJoin

\* the observer's thread
Handler ==
    \/ OnCreated
    \/ OnCreatedSettled

\* the worker thread
Worker(responses, outcomes) ==
    \/ WorkerGet
    \/ JobBegin(outcomes)
    \/ JobRead(outcomes)
    \/ JobAsk(responses)
    \/ JobLogRead
    \/ JobLogOpen
    \/ JobLogWrite
    \/ JobArchive
    \/ JobCompleted(outcomes)
    \/ JobExcept(outcomes)
    \/ WorkerTaskDone

\* The watcher in a directory where files and directories of every kind
\* appear and disappear, with a status file that can be written.
Next ==
    \/ \E f \in EventFiles : CreateFile(f.name, f.size)
    \/ CreateDir
    \/ \E name \in EventNames : RemoveFile(name)
    \/ Startup
    \/ Handler
    \/ Worker(Responses, {"ok"})
    \/ Shutdown

Spec == Init /\ [][Next]_vars

\* The watcher in a directory where only screenshots appear, with a status
\* file whose writes can fail.
InitJobs == InitWith({Absent, File(MainHeader \o OldEntry)}, {EmptyDir})

NextJobs ==
    \/ \E name \in ScreenshotNames : CreateFile(name, 1)
    \/ Startup
    \/ Handler
    \/ Worker(Responses, StatusOutcomes)
    \/ Shutdown

SpecJobs == InitJobs /\ [][NextJobs]_vars

\* The watcher before any interrupt and the two viewers, in a directory
\* where only screenshots appear, with every kind of log and of answer text.
InitLog == InitWith({Absent, File(<<>>), File(MainHeader \o OldEntry)}, {EmptyDir})

NextLog ==
    \/ \E name \in ScreenshotNames : CreateFile(name, 1)
    \/ Startup
    \/ Handler
    \/ Worker(LogResponses, {"ok"})
    \/ ViewerServe
    \/ ViewerBottomServe

SpecLog == InitLog /\ [][NextLog]_vars

\* The worker with both screenshots queued and a viewer_bottom request, for
\* every kind of log and of answer text: the state main, the observer and
\* the handler have reached once two screenshots were taken.
InitChrono ==
    /\ watched = Put(Put(EmptyDir, ScreenPng, [id |-> 1, size |-> 1]),
                     Screen1Png, [id |-> 2, size |-> 1])
    /\ archive = EmptyDir
    /\ answersFile \in {File(<<>>), File(MainHeader), File(MainHeader \o OldEntry)}
    /\ statusFile = NoStatus
    /\ events = <<>>
    /\ observer = "running"
    /\ hpc = "idle" /\ hpath = None
    /\ processing = ScreenshotNames
    /\ screenshot_queue = <<ScreenPng, Screen1Png>>
    /\ mpc = "sleep"
    /\ wpc = "get"
    /\ screenshot_path = None /\ image_data = 0 /\ answer = <<>>
    /\ new_content = <<>> /\ err = ""
    /\ nCreated = MaxCreates /\ nViews = 0
    /\ viewed = [ok |-> FALSE, content |-> <<>>]
    /\ served = <<>>
    /\ putHist = screenshot_queue /\ runHist = <<>> /\ running = 0
    /\ lateWriters = {}
    /\ committed = {answersFile.content}
    /\ log0 = answersFile
    /\ inserted = <<>>
    /\ jobLog = Absent /\ jobArchive = EmptyDir
    /\ damaged = FALSE
    /\ decisions = <<[path |-> ScreenPng, outcome |-> "queued"],
                     [path |-> Screen1Png, outcome |-> "queued"]>>
    /\ statusOutcome = ""
    /\ config = OpenAIConfig
    /\ configFile = ConfigFile(OpenAIConfig)
    /\ statusServed = NoStatus
    /\ request = NoRequest /\ response = <<>>

NextChrono ==
    \/ Worker(LogResponses, {"ok"})
    \/ ViewerBottomServe
    \/ ViewerBottomServeFile

SpecChrono == InitChrono /\ [][NextChrono]_vars

\* The worker with both screenshots queued, and the direct script run by
\* hand next to it.
NextDirect ==
    \/ Worker(LogResponses, {"ok"})
    \/ DirectAppend(LogResponses)

SpecDirect == InitChrono /\ [][NextDirect]_vars

\* The watcher started with configuration files of every kind and with
\* none, in a directory where a screenshot appears.
InitConfig ==
    InitFiles({ConfigFile(cfg) : cfg \in Configs} \cup {NoConfigFile},
              {Absent}, {EmptyDir})

NextConfig ==
    \/ CreateFile(ScreenPng, 1)
    \/ Startup
    \/ LoadConfigFails
    \/ Handler
    \/ Worker(Responses, {"ok"})

SpecConfig == InitConfig /\ [][NextConfig]_vars

\* The handler with one creation event pending, for names of every kind,
\* files and directories, the file being there, still empty or gone when the
\* handler looks: the state of a running watcher when something appears in
\* the watched directory.
ClassifyStems == {<<"screen">>, <<"screen", "_", "recording">>, <<"Screenshot", " 2025">>,
                  <<"Screen Shot">>, <<"SCREEN">>, <<"My screen">>, <<"photo">>,
                  <<"document">>}
ClassifyNames == {stem \o <<ext>> : stem \in ClassifyStems, ext \in Exts}
                 \cup ClassifyStems
ClassifyEvents == [src_path : ClassifyNames, is_directory : BOOLEAN]

InitClassify ==
    /\ events \in {<<e>> : e \in ClassifyEvents}
    /\ watched \in {EmptyDir} \cup
                   (IF events[1].is_directory THEN {}
                    ELSE {Put(EmptyDir, events[1].src_path, [id |-> 1, size |-> sz]) :
                            sz \in {0, 1}})
    /\ archive = EmptyDir
    /\ answersFile = File(MainHeader)
    /\ statusFile = NoStatus
    /\ observer = "running"
    /\ hpc = "idle" /\ hpath = None
    /\ processing = {}
    /\ screenshot_queue = <<>>
    /\ mpc = "sleep"
    /\ wpc = "get"
    /\ screenshot_path = None /\ image_data = 0 /\ answer = <<>>
    /\ new_content = <<>> /\ err = ""
    /\ nCreated = MaxCreates /\ nViews = 0
    /\ viewed = [ok |-> FALSE, content |-> <<>>]
    /\ served = <<>>
    /\ putHist = <<>> /\ runHist = <<>> /\ running = 0
    /\ lateWriters = {}
    /\ committed = {MainHeader}
    /\ log0 = answersFile
    /\ inserted = <<>>
    /\ jobLog = Absent /\ jobArchive = EmptyDir
    /\ damaged = FALSE
    /\ decisions = <<>>
    /\ statusOutcome = ""
    /\ config = OpenAIConfig
    /\ configFile = ConfigFile(OpenAIConfig)
    /\ statusServed = NoStatus
    /\ request = NoRequest /\ response = <<>>

SpecClassify == InitClassify /\ [][Handler]_vars

\* ================================================================= claims
IsPath(item) == item # None
PathsOf(items) == SelectSeq(items, IsPath)
Elems(seq) == {seq[i] : i \in DOMAIN seq}
NoRepeats(seq) == \A i, j \in DOMAIN seq : seq[i] = seq[j] => i = j

\* positions of the worker inside process_screenshot
JobSteps == {"begin", "read", "ask", "log_read", "log_open", "log_write",
             "archive", "completed", "except"}

\* the path is queued or its job is running
InFlight(path) ==
    \/ path \in Elems(screenshot_queue)
    \/ screenshot_path = path /\ wpc \in JobSteps

\* C1: whatever creation events on_created receives, no path is put on
\* screenshot_queue twice and no path is given to process_screenshot twice.
C1_EachPathEnqueuedOnce ==
    /\ NoRepeats(PathsOf(putHist))
    /\ NoRepeats(runHist)

\* C1 witness: a second creation event for a path came while the path was
\* queued or being processed, and on_created dropped it.
C1_Witness ==
    /\ Len(decisions) >= 2
    /\ decisions[Len(decisions)].outcome = "already processing"
    /\ InFlight(decisions[Len(decisions)].path)
    /\ \E i \in DOMAIN decisions :
         decisions[i] = [path |-> decisions[Len(decisions)].path, outcome |-> "queued"]

\* C2: process_screenshot is called for the paths in the order they were put
\* on the queue, at most one call is running at any time, and once the worker
\* thread has been started nobody but the worker writes the answer log or the
\* status file.
C2_FifoOneJobOneWriter ==
    /\ running <= 1
    /\ Len(runHist) <= Len(PathsOf(putHist))
    /\ runHist = SubSeq(PathsOf(putHist), 1, Len(runHist))
    /\ lateWriters \subseteq {"worker"}

\* C2 witness: main wrote the header, then two paths were queued one after
\* the other and the job of the second is running after that of the first.
C2_Witness ==
    /\ MainHeader \in committed
    /\ Len(runHist) = 2
    /\ wpc \in JobSteps
    /\ running = 1
    /\ "worker" \in lateWriters
    /\ \E i \in DOMAIN decisions : \E j \in DOMAIN decisions :
         /\ i < j
         /\ decisions[i] = [path |-> runHist[1], outcome |-> "queued"]
         /\ decisions[j] = [path |-> runHist[2], outcome |-> "queued"]

\* the items the worker has taken off the queue
Consumed == SubSeq(putHist, 1, Len(putHist) - Len(screenshot_queue))

\* the job that just returned failed
JobFailed == wpc = "done" /\ err # ""

ErrorRecord ==
    [exists |-> TRUE, filename |-> screenshot_path, status |-> "Error",
     details |-> err]

\* the worker loop has ended only by taking the poison pill off the queue
StoppedByPill ==
    wpc = "stopped" => Consumed # <<>> /\ Consumed[Len(Consumed)] = None

\* C3 as stated: a failing job never ends the worker loop, and after any
\* failing job the status record says Error.
C3_Original ==
    /\ StoppedByPill
    /\ JobFailed => statusFile.status = "Error"

\* C3 amended: a failing job (read, provider, log or move error) never ends
\* the worker loop: the loop ends only on the poison pill, and every path
\* taken off the queue is given to process_screenshot.  After a failing job
\* the status record is that job's Error record whenever the status write
\* succeeded, and is never a Completed record of that job.
C3_FailedJobKeepsWorker ==
    /\ StoppedByPill
    /\ PathsOf(Consumed) = runHist
    /\ JobFailed /\ statusOutcome = "ok" => statusFile = ErrorRecord
    /\ JobFailed =>
         ~(statusFile.status = "Completed" /\ statusFile.filename = screenshot_path)

\* C3 witness: the first job failed, its Error record is in the status file,
\* and the worker has gone on to the job queued behind it.
C3_Witness ==
    /\ Len(runHist) = 2
    /\ wpc = "begin"
    /\ statusFile.status = "Error"
    /\ statusFile.filename = runHist[1]
    /\ screenshot_path = runHist[2]

\* what a failed provider call leaves untouched: the source file is where it
\* was, the archive and the answer log are as the job found them
ProviderFailureFrame ==
    /\ screenshot_path \in DOMAIN watched
    /\ archive = jobArchive
    /\ answersFile = jobLog

\* C4 as stated: after a job whose provider call failed the status record
\* has phase Error, the source file is at its path and not in the archive,
\* and the answer log is what it was before the job.
C4_Original ==
    wpc = "done" /\ err = "provider error" =>
        statusFile.status = "Error" /\ ProviderFailureFrame

\* C4 amended: after a job whose provider call failed the source file is at
\* its path and not in the archive, the answer log is what it was before the
\* job, and the status record is that job's Error record whenever the status
\* write succeeded.
C4_ProviderFailure ==
    wpc = "done" /\ err = "provider error" =>
        /\ ProviderFailureFrame
        /\ statusOutcome = "ok" => statusFile = ErrorRecord

\* C4 witness: the provider call of a second job failed after the first job
\* had written its entry to the log.
C4_Witness ==
    /\ wpc = "done" /\ err = "provider error"
    /\ statusOutcome = "ok"
    /\ Len(inserted) = 1
    /\ Len(runHist) = 2

\* the name a file called src must get in a directory holding the names dir
FreeName(dir, src, n) ==
    IF src \notin dir THEN n = src
    ELSE \E k \in 1..9 :
           /\ n = Suffixed(src, k)
           /\ n \notin dir
           /\ \A j \in 1..(k - 1) : Suffixed(src, j) \in dir

ArchiveGrows ==
    /\ \A n \in DOMAIN archive : n \in DOMAIN archive' /\ archive'[n] = archive[n]
    /\ archive' # archive =>
         /\ screenshot_path \in DOMAIN watched
         /\ screenshot_path \notin DOMAIN watched'
         /\ \E n \in DOMAIN archive' \ DOMAIN archive :
              /\ DOMAIN archive' = DOMAIN archive \cup {n}
              /\ archive'[n] = watched[screenshot_path].id
              /\ FreeName(DOMAIN archive, screenshot_path, n)

\* C10: no step replaces or removes a file of the archive; a step that
\* archives stem.ext adds it as stem.ext when that name is free and otherwise
\* as stem_k.ext for the smallest k >= 1 whose name is free.
C10_ArchiveNeverOverwrites == [][ArchiveGrows]_vars

\* C10 witness: screen.png was archived as screen_2.png, next to a
\* screen.png and a screen_1.png that are still what they were.
C10_Witness ==
    /\ Suffixed(ScreenPng, 2) \in DOMAIN archive
    /\ ScreenPng \in DOMAIN archive /\ archive[ScreenPng] = 0
    /\ Screen1Png \in DOMAIN archive

\* ------------------------------------------------------- the answer log
\* the text up to and including the first delimiter line; all of the text
\* when it holds no delimiter line
HeaderOf(content) ==
    IF Find(content, DELIM) = -1 THEN content
    ELSE Slice(content, 0, Find(content, DELIM) + Len(DELIM))

\* the text after the first delimiter line
BelowHeader(content) ==
    IF Find(content, DELIM) = -1 THEN <<>>
    ELSE From(content, Find(content, DELIM) + Len(DELIM))

\* the log holds a document: it exists, no write of it is under way and none
\* has failed
LogSettled == answersFile.exists /\ wpc # "log_write" /\ ~damaged

\* C5 as stated: after the insertions E1..EN into the log the first job
\* found, the log is that log's header, then EN, ..., E1, then what that log
\* held below its header.
C5_NewestFirst ==
    LogSettled =>
        answersFile.content =
            HeaderOf(log0.content) \o Concat(Reverse(inserted))
            \o BelowHeader(log0.content)

\* C6 as stated: the first insertion into an absent or an empty log file
\* leaves the default header followed by that one entry.
C6_EmptyLogGetsHeader ==
    LogSettled /\ Len(inserted) = 1 /\ (~log0.exists \/ log0.content = <<>>) =>
        answersFile.content = DefaultHeader \o inserted[1]

\* C7 as stated: the header of the log after an insertion is its header
\* before the insertion.
C7_HeaderPreserved ==
    wpc = "archive" =>
        HeaderOf(answersFile.content) = HeaderOf(jobLog.content)

\* C8 as stated: what a viewer reads is a complete document of the log: the
\* one before some insertion or the one after it.
C8_ViewerSeesCompleteDocument ==
    viewed.ok => viewed.content \in committed

\* ------------------------------------------------- chronological view
\* parts[0] of viewer_bottom's split: the text before the first delimiter
HeadPart(content) == SplitOnce(content, DELIM)[1]

\* the non-empty fragments of the text after the first delimiter
RawFragments(content) ==
    LET parts == SplitOnce(content, DELIM)
    IN  IF Len(parts) > 1 THEN SelectSeqNonEmpty(Split(parts[2], DELIM)) ELSE <<>>

\* the same, each without the white space around it
Fragments(content) ==
    [i \in DOMAIN RawFragments(content) |-> Strip(RawFragments(content)[i])]

EndsInRule(text) ==
    Len(text) >= 3 /\ SubSeq(text, Len(text) - 2, Len(text)) = <<DASH, DASH, DASH>>

NoFragmentEndsInRule(content) ==
    \A i \in DOMAIN RawFragments(content) : ~EndsInRule(RawFragments(content)[i])

\* C9 as stated: the reordering applied twice gives back the text of the log.
C9_Original ==
    answersFile.exists =>
        Chronological(Chronological(answersFile.content)) = answersFile.content

\* C9 amended: for a log none of whose fragments ends in "---", the
\* reordering keeps the text before the first delimiter and reverses the
\* order of the non-empty fragments, and applied twice it gives back the same
\* fragments in the same order, each up to the white space around it (the
\* text itself is not given back: the last delimiter is dropped and a line
\* end is put before every delimiter).
C9_TwiceRestoresOrder ==
    answersFile.exists /\ NoFragmentEndsInRule(answersFile.content) =>
        LET doc == answersFile.content
            once == Chronological(doc)
            twice == Chronological(once)
        IN  /\ HeadPart(once) = HeadPart(doc)
            /\ Fragments(once) = Reverse(Fragments(doc))
            /\ HeadPart(twice) = HeadPart(doc)
            /\ Fragments(twice) = Fragments(doc)

\* C9 witness: viewer_bottom served the reordering of a log of three
\* fragments or more, none ending in "---".
C9_Witness ==
    /\ answersFile.exists
    /\ wpc = "get"
    /\ served = Chronological(answersFile.content)
    /\ Len(Fragments(answersFile.content)) >= 3
    /\ NoFragmentEndsInRule(answersFile.content)
    /\ Fragments(served) # Fragments(answersFile.content)

RECURSIVE AheadOfPill(_)
AheadOfPill(items) ==
    IF items = <<>> \/ Head(items) = None THEN <<>>
    ELSE <<Head(items)>> \o AheadOfPill(Tail(items))

\* The watcher, up to its exit, whose worker thread keeps running: every
\* step of the worker (a file operation, a provider call that returns) comes
\* to its end, and a get on a queue that holds an item returns.
InitLive == InitWith({Absent, File(MainHeader \o OldEntry)}, {EmptyDir})

NextLive ==
    \/ \E f \in EventFiles : CreateFile(f.name, f.size)
    \/ Startup
    \/ Handler
    \/ Worker(Responses, {"ok"})
    \/ Shutdown

SpecLive == InitLive /\ [][NextLive]_vars /\ WF_vars(Worker(Responses, {"ok"}))

\* The watcher that is never interrupted: main stays in its loop of sleeps
\* (watcher.py 371-372), the worker thread keeps running as above, and a
\* status write may fail.
NextRun ==
    \/ \E name \in ScreenshotNames : CreateFile(name, 1)
    \/ Startup
    \/ Handler
    \/ Worker(Responses, StatusOutcomes)

SpecRun == InitLive /\ [][NextRun]_vars /\ WF_vars(Worker(Responses, StatusOutcomes))

\* the worker has left its loop, and the jobs it ran are those of the paths
\* put ahead of the poison pill, in their order
StoppedAfterPill == wpc = "stopped" => runHist = AheadOfPill(putHist)

\* once stopped the worker stays stopped and starts no job
NoJobAfterPill == wpc = "stopped" => wpc' = "stopped" /\ runHist' = runHist

\* C12: once the poison pill is on the queue the worker thread eventually
\* leaves its loop; by then it has run a job for every path put ahead of the
\* pill, in order, and after taking the pill it runs no further job.
C12_PillStopsWorker ==
    /\ (None \in Elems(putHist)) ~> (wpc = "stopped")
    /\ []StoppedAfterPill
    /\ [][NoJobAfterPill]_vars

\* C12 witness: the pill was put behind two paths, and the worker ran both
\* jobs and then left its loop.
C12_Witness ==
    /\ wpc = "stopped"
    /\ Len(runHist) = 2
    /\ putHist[3] = None
    /\ Len(putHist) = 3

\* ----------------------------------------------------------- classification
\* the extensions of image files and the first words of names that start,
\* whatever their case, with "screen"
ImageExts == {".png", ".PNG", ".jpg"}
ScreenWords == {"screen", "screens", "Screenshot", "Screen Shot", "SCREEN"}

\* a creation event for a file, not a directory, whose media type is an
\* image type and whose base name starts with "screen" in any case
IsScreenshotImage(e) ==
    /\ ~e.is_directory
    /\ e.src_path[Len(e.src_path)] \in ImageExts
    /\ e.src_path[1] \in ScreenWords

\* on_created takes the next event and goes on to the settling delay exactly
\* when the event is that of a screenshot image not seen before
ClassifiedRight ==
    events # <<>> /\ events' = Tail(events) =>
        ((hpc' = "settling" /\ hpath' = Head(events).src_path)
            <=> (IsScreenshotImage(Head(events))
                 /\ Head(events).src_path \notin processing))

\* C13: a creation event passes the classification of on_created if and only
\* if it is for a file, not a directory, whose guessed media type is an image
\* type and whose base name starts with "screen" in any case; an event of any
\* other kind is dropped and its path is never put on the queue.
C13_Classification ==
    /\ [][ClassifiedRight]_vars
    /\ [](\A i \in DOMAIN putHist :
            IsPath(putHist[i]) =>
                IsScreenshotImage([src_path |-> putHist[i], is_directory |-> FALSE]))

\* C13 witness: SCREEN.PNG, upper case in name and extension, passed the
\* classification and was put on the queue.
C13_Witness ==
    /\ putHist = <<<<"SCREEN", ".PNG">>>>
    /\ decisions = <<[path |-> <<"SCREEN", ".PNG">>, outcome |-> "queued"]>>

\* ------------------------------------------------------------ status writes
\* the errors a job can end with
JobErrors == {"read error", "provider error", "log read error", "log open error",
              "log write error", "move error"}

\* the step of the job that calls update_status goes where it goes when the
\* write succeeds, and touches neither the log, the archive nor the watched
\* directory
StatusStepGoesOn ==
    wpc' # wpc =>
        /\ wpc = "begin" => wpc' = "read" /\ err' = err
        /\ wpc = "read" /\ err' = err => wpc' = "ask"
        /\ wpc = "completed" => wpc' = "done" /\ err' = err
        /\ wpc = "except" => wpc' = "done" /\ err' = err
        /\ wpc \in {"begin", "read", "completed", "except"} =>
             /\ answersFile' = answersFile
             /\ archive' = archive
             /\ watched' = watched

\* the job that returned True has put its entry into the log it found and
\* has moved its file to the archive
JobDoneComplete ==
    wpc = "done" /\ err = "" =>
        /\ answersFile = File(NewContent(jobLog, screenshot_path, answer))
        /\ Cardinality(DOMAIN archive) = Cardinality(DOMAIN jobArchive) + 1
        /\ \A n \in DOMAIN jobArchive : n \in DOMAIN archive

\* C14: a status write that fails is swallowed: the step that made it goes on
\* as after a write that succeeded, the job ends with the outcome of its own
\* steps (its entry in the log and its file in the archive, or one of its own
\* errors) and the worker loop ends only on the poison pill.
C14_StatusFailureSwallowed ==
    /\ [][StatusStepGoesOn]_vars
    /\ [](err \in JobErrors \cup {""})
    /\ []JobDoneComplete
    /\ [](wpc = "stopped" => Consumed # <<>> /\ Consumed[Len(Consumed)] = None)

\* C14 witness: two jobs have returned True, each with its entry in the log,
\* and the last status write failed after truncating the status file.
C14_Witness ==
    /\ wpc = "done" /\ err = ""
    /\ statusOutcome = "write_failed"
    /\ statusFile = EmptyStatus
    /\ Len(runHist) = 2
    /\ Len(inserted) = 2

\* ------------------------------------------------------------ configuration
\* the process has started neither the worker thread nor the observer, has
\* handled no event and has run no job
NeverStarted ==
    /\ mpc \in {"load", "configure", "exit_1", "crashed"}
    /\ wpc = "unstarted"
    /\ observer = "unstarted"
    /\ decisions = <<>>
    /\ putHist = <<>>
    /\ runHist = <<>>

\* C15 as stated: with an empty api key, or a provider that is not one of
\* openai, anthropic, gemini, the process never gets past its startup.
C15_Original ==
    (config.api_key = "" \/ config.provider \notin {"openai", "anthropic", "gemini"})
        => NeverStarted

\* the provider entries the startup takes for one of the three providers:
\* their names in any case, and no entry at all (openai is the default)
ProviderSpellings == {"openai", "anthropic", "gemini", "OpenAI", Missing}

\* C15 amended: with an empty api key, with a provider entry that is none of
\* openai, anthropic, gemini in any case (a missing entry counts as openai),
\* or with the library of the chosen provider not installed, the process
\* exits during startup: it starts neither the worker thread nor the
\* observer, handles no event and runs no job.
C15_BadConfigExits ==
    (config.api_key = "" \/ config.provider \notin ProviderSpellings \/ ~config.library)
        => NeverStarted

\* C15 witness: the process has exited at startup under a configuration with
\* an api key and the unknown provider azure.
C15_Witness ==
    /\ mpc = "exit_1"
    /\ config.api_key = "key"
    /\ config.provider = "azure"
    /\ config.library

\* ------------------------------------------------------------- the request
\* a is r without the white space at its two ends
IsTrimOf(a, r) ==
    \E i \in 1..(Len(r) + 1) : \E j \in 0..Len(r) :
        /\ a = SubSeq(r, i, j)
        /\ \A k \in 1..(i - 1) : r[k] \in Whitespace
        /\ \A k \in (j + 1)..Len(r) : r[k] \in Whitespace
        /\ a # <<>> => a[1] \notin Whitespace /\ a[Len(a)] \notin Whitespace

\* the provider has answered the job's request
Answered == wpc \in {"log_read", "log_open", "log_write", "archive", "completed"}

\* C16: under each of the three providers the request of a job carries the
\* configured prompt text as it is and all the bytes read from the file
\* (base64-encoded for openai and anthropic, as they are for gemini), and the
\* answer put into the log entry is the provider's text without the white
\* space at its ends.
C16_RequestAndAnswer ==
    /\ Answered =>
         /\ request.provider \in {"openai", "anthropic", "gemini"}
         /\ request.provider = ProviderOf(config)
         /\ request.prompt = PromptText
         /\ request.image.data = image_data
         /\ request.image.encoding =
              (IF request.provider = "gemini" THEN "raw" ELSE "base64")
         /\ IsTrimOf(answer, response)
    /\ wpc \in {"archive", "completed"} =>
         inserted[Len(inserted)] =
             <<NL, Heading>> \o screenshot_path \o <<NL, TimeLabel, TS, NL, NL>>
             \o answer \o <<NL, NL>> \o DELIM

\* C16 witness: under gemini a job sent the prompt and the bytes of its file,
\* got a text with white space around it and wrote it trimmed into the log.
C16_Witness ==
    /\ wpc = "archive"
    /\ request = [provider |-> "gemini", prompt |-> PromptText, image |-> Raw(1)]
    /\ response = <<NL, "B", SP>>
    /\ answer = <<"B">>
    /\ Len(inserted) = 1

\* ------------------------------------------------------------- the handler
\* the outcomes of on_created that drop the event's path
Dropped == {"directory", "not an image", "name", "invalid"}

QueuedDecisions == SelectSeq(decisions, LAMBDA d : d.outcome = "queued")

\* on_created starts the settling delay only for an event of a screenshot
\* image, taken from the head of the pending events
SleepsAfterClassification ==
    hpc = "idle" /\ hpc' = "settling" =>
        /\ events # <<>>
        /\ IsScreenshotImage(Head(events))
        /\ hpath' = Head(events).src_path

\* a path is put on the queue only by the handler coming out of the settling
\* delay for that path, with the file there and not empty at that moment,
\* and the path enters the set of paths seen in the same step
PutsAfterValidation ==
    Len(putHist') > Len(putHist) /\ IsPath(putHist'[Len(putHist')]) =>
        LET p == putHist'[Len(putHist')]
        IN  /\ hpc = "settling" /\ hpath = p
            /\ hpc' = "idle"
            /\ p \in DOMAIN watched /\ watched[p].size > 0
            /\ p \notin processing
            /\ processing' = processing \cup {p}
            /\ screenshot_queue' = Append(screenshot_queue, p)

\* C17: every path on screenshot_queue went through the steps of on_created
\* in order: its event passed the classification, then the settling delay
\* was over, then its file was found to exist with a size above 0, and only
\* then was it added to the set of paths seen and put on the queue; a path
\* dropped at any step was never put on the queue.
C17_HandlerStepsInOrder ==
    /\ [][SleepsAfterClassification]_vars
    /\ [][PutsAfterValidation]_vars
    /\ [](hpc = "settling" =>
            IsScreenshotImage([src_path |-> hpath, is_directory |-> FALSE]))
    /\ [](\A i \in DOMAIN screenshot_queue :
            IsPath(screenshot_queue[i]) => screenshot_queue[i] \in processing)
    /\ [](PathsOf(putHist) = [i \in DOMAIN QueuedDecisions |-> QueuedDecisions[i].path])

\* C17 witness: screen.png, created empty, was dropped after the settling
\* delay; screen_1.png then went through every step and is on the queue.
C17_Witness ==
    /\ decisions = <<[path |-> ScreenPng, outcome |-> "invalid"],
                     [path |-> Screen1Png, outcome |-> "queued"]>>
    /\ screenshot_queue = <<Screen1Png>>
    /\ processing = {Screen1Png}

\* a step in which on_created drops a path leaves the set of paths seen as
\* it was
DropLeavesNoMark ==
    Len(decisions') > Len(decisions)
    /\ decisions'[Len(decisions')].outcome \in Dropped
        => processing' = processing

\* an event is suppressed as already seen only when an earlier event for the
\* same path ended with the path on the queue
SuppressedOnlyAfterQueued ==
    \A j \in DOMAIN decisions :
        decisions[j].outcome = "already processing" =>
            \E i \in 1..(j - 1) :
                decisions[i] = [path |-> decisions[j].path, outcome |-> "queued"]

\* C18: a path dropped by on_created, by the classification or because its
\* file was missing or empty after the delay, is not added to the set of
\* paths seen, so a later creation event for the same path goes through the
\* same tests again and can end on the queue.
C18_DroppedPathNotMarked ==
    /\ [][DropLeavesNoMark]_vars
    /\ []SuppressedOnlyAfterQueued
    /\ [](processing = {d.path : d \in Elems(QueuedDecisions)})

\* C18 witness: screen.png was dropped as empty after the delay, and a later
\* creation event for it, the file now written, put it on the queue.
C18_Witness ==
    /\ decisions = <<[path |-> ScreenPng, outcome |-> "invalid"],
                     [path |-> ScreenPng, outcome |-> "queued"]>>
    /\ putHist = <<ScreenPng>>
    /\ ScreenPng \in processing

\* every event for a path that came after the event that put the path on
\* the queue was suppressed
SuppressedAfterQueued ==
    \A i \in DOMAIN decisions : \A j \in DOMAIN decisions :
        /\ i < j
        /\ decisions[i].outcome = "queued"
        /\ decisions[j].path = decisions[i].path
        => decisions[j].outcome = "already processing"

\* C19: no step takes a path out of the set of paths seen, so once a path
\* has been put on the queue every later creation event for it is dropped,
\* also after its job has returned, with the file archived or with an error.
C19_InFlightOnlyGrows ==
    /\ [][processing \subseteq processing']_vars
    /\ []SuppressedAfterQueued

\* C19 witness: the job of screen.png returned True and the file is in the
\* archive; a new screen.png was created after that, its event was dropped
\* as already seen and the file stays in the watched directory.
C19_Witness ==
    /\ decisions = <<[path |-> ScreenPng, outcome |-> "queued"],
                     [path |-> ScreenPng, outcome |-> "already processing"]>>
    /\ runHist = <<ScreenPng>>
    /\ wpc = "get"
    /\ ScreenPng \in DOMAIN watched /\ watched[ScreenPng].id = 2
    /\ \E n \in DOMAIN archive : archive[n] = 1

\* ---------------------------------------------- entries in the chronological view
\* an entry block without the delimiter line that ends it
EntryBody(entry) == SubSeq(entry, 1, Len(entry) - Len(DELIM))

\* the entries the first job found in the log
OldEntries(log) ==
    IF log.exists /\ log.content = MainHeader \o OldEntry THEN <<OldEntry>> ELSE <<>>

\* the entries stored in the log, from its top: the inserted ones, newest
\* first, then the old ones
StoredEntries == Reverse(inserted) \o OldEntries(log0)

\* C20 as stated: for a log that began with a header, whatever the answers
\* inserted since, the chronological view has the header of the log and
\* then exactly the stored entries, each one whole (up to the white space
\* around it), in the reverse of their stored order.
C20_ViewHoldsEntries ==
    LogSettled /\ Find(log0.content, DELIM) # -1 =>
        LET view == Chronological(answersFile.content)
        IN  /\ HeaderOf(view) = HeaderOf(answersFile.content)
            /\ Fragments(view) =
                 Reverse([i \in DOMAIN StoredEntries |->
                             Strip(EntryBody(StoredEntries[i]))])

\* ------------------------------------------------------------ viewer requests
\* a request served by a viewer leaves the answer log and the status file
\* as they were
RequestWritesNothing ==
    nViews' # nViews => answersFile' = answersFile /\ statusFile' = statusFile

\* C21: serving the chronological view, or the status, writes neither the
\* answer log nor the status file: both are the same after a request as
\* before it, for any number of requests.
C21_ViewWritesNothing == [][RequestWritesNothing]_vars

\* C21 witness: viewer_bottom served a log of two entries or more in another
\* order than the stored one, and the stored log is still what the worker
\* wrote last.
C21_Witness ==
    /\ nViews = MaxViews
    /\ wpc = "get"
    /\ Len(inserted) >= 2
    /\ served = Chronological(answersFile.content)
    /\ served # answersFile.content
    /\ answersFile.content \in committed
    /\ ~damaged

\* ------------------------------------------------------------ entry blocks
\* the number of places where the token t stands in the text
CountOf(text, t) == Cardinality({i \in DOMAIN text : text[i] = t})

\* the block is, in this order: a line end, the heading line with a file
\* name, the bold time line, a line end, an answer, a line end, an empty
\* line and the delimiter line; heading and time label stand in it once
HasEntryShape(block) ==
    \E name \in ScreenshotNames \cup {DirectPng} :
    \E text \in LogResponses :
        LET head == <<NL, Heading>> \o name \o <<NL>>
            time == <<TimeLabel, TS, NL>>
            tail == <<NL, NL>> \o DELIM
            body == SubSeq(block, Len(head) + Len(time) + 2, Len(block) - Len(tail))
        IN  /\ Len(block) >= Len(head) + Len(time) + 1 + Len(tail)
            /\ SubSeq(block, 1, Len(head)) = head
            /\ SubSeq(block, Len(head) + 1, Len(head) + Len(time)) = time
            /\ block[Len(head) + Len(time) + 1] = NL
            /\ IsTrimOf(body, text)
            /\ SubSeq(block, Len(block) - Len(tail) + 1, Len(block)) = tail
            /\ CountOf(block, Heading) = 1
            /\ CountOf(block, TimeLabel) = 1

\* C22: every entry block put into the log, by the watcher's job or by the
\* direct script, is made of the heading line with the file name, the bold
\* time line, the answer, an empty line and the delimiter line, in this
\* order and each once.
C22_EntryShape == \A i \in DOMAIN inserted : HasEntryShape(inserted[i])

\* C22 witness: the log holds a block written by the direct script and the
\* blocks of the watcher's two jobs.
C22_Witness ==
    /\ lateWriters = {"worker", "direct"}
    /\ Len(inserted) = 3
    /\ wpc = "get"
    /\ \E i \in DOMAIN inserted : \E a \in {<<"A">>, <<"B">>} :
         inserted[i] = NewEntry(DirectPng, a)

\* ------------------------------------------------------ the status record
StatusRecord(filename, status, details) ==
    [exists |-> TRUE, filename |-> filename, status |-> status, details |-> details]

\* the steps of a job between the second status write and the last
AfterRead == {"ask", "log_read", "log_open", "log_write", "archive", "completed"}

\* the record the status file holds at each point of a job: Processing from
\* the job's first step on, then Completed when the job returned True, or
\* Error with the error's text when it failed, always under the job's name
StatusOfJob ==
    /\ wpc = "read" =>
         statusFile = StatusRecord(screenshot_path, "Processing", "Reading file...")
    /\ wpc \in AfterRead =>
         statusFile = StatusRecord(screenshot_path, "Processing", "Sending to AI...")
    /\ wpc = "except" =>
         statusFile.status = "Processing" /\ statusFile.filename = screenshot_path
    /\ wpc = "done" /\ err = "" =>
         statusFile = StatusRecord(screenshot_path, "Completed", "Answer added to viewer")
    /\ wpc = "done" /\ err # "" =>
         statusFile = StatusRecord(screenshot_path, "Error", err)

\* C23 as stated: during every job the status record says Processing, right
\* after the job it says Completed or, when the job failed, Error with the
\* text of the error, always under the job's file name.
C23_Original == StatusOfJob

\* a step that changes the status file is a step of the running job, and it
\* writes Completed or Error only as the job's last step
StatusWrittenByJob ==
    statusFile' # statusFile =>
        /\ wpc \in {"begin", "read", "completed", "except"}
        /\ statusFile'.status \in {"Completed", "Error"} => wpc' = "done"
        /\ statusFile'.status \in {"", "Processing", "Completed", "Error"}
        /\ statusFile'.status # "" => statusFile'.filename = screenshot_path

\* C23 amended: whenever the last status write of the running job succeeded,
\* the status record says Processing during the job and, right after it,
\* Completed or, when the job failed, Error with the text of the error,
\* under the job's file name; no write uses another phase or another name,
\* and Completed or Error is written once, as the job's last step.  (A
\* status write that fails leaves the record of before or an empty file.)
C23_StatusFollowsJob ==
    /\ [](statusOutcome = "ok" => StatusOfJob)
    /\ [][StatusWrittenByJob]_vars

\* C23 witness: the second job went through Processing and failed in the
\* write of the log, and the status record is its Error record with the
\* text of that error.
C23_Witness ==
    /\ wpc = "done"
    /\ Len(runHist) = 2
    /\ err = "log write error"
    /\ statusOutcome = "ok"
    /\ statusFile = StatusRecord(runHist[2], "Error", "log write error")

\* --------------------------------------------------- what Completed means
\* an entry of the log that is headed by the file name
EntryOf(entry, name) ==
    /\ Len(entry) > Len(name) + 2
    /\ SubSeq(entry, 1, Len(name) + 3) = <<NL, Heading>> \o name \o <<NL>>

\* the log as it is holds an entry of the file
LogHoldsEntryOf(name) ==
    /\ answersFile.exists
    /\ \E i \in DOMAIN inserted :
         /\ EntryOf(inserted[i], name)
         /\ Find(answersFile.content, inserted[i]) # -1

\* the names the move can give the file in the archive
ArchivedNames(name) == {name} \cup {Suffixed(name, k) : k \in 1..MaxCreates}

\* the file is in the archive, and a file of its name that stands in the
\* watched directory was created after it
MovedToArchive(name) ==
    \E n \in DOMAIN archive \cap ArchivedNames(name) :
        name \in DOMAIN watched => watched[name].id > archive[n]

CompletedFor(name) ==
    statusFile.exists /\ statusFile.status = "Completed" /\ statusFile.filename = name

\* C24: whenever the status record says Completed for a file, the log holds
\* that file's entry and the file has been moved from the watched directory
\* into the archive.
C24_CompletedMeansDone ==
    \A name \in ScreenshotNames :
        CompletedFor(name) => LogHoldsEntryOf(name) /\ MovedToArchive(name)

\* the same outside the window of the truncating write: it holds, so the
\* truncation is the one way the log loses the entry of a completed file
C24_UnlessLogDamaged == ~damaged /\ wpc # "log_write" => C24_CompletedMeansDone

\* ------------------------------------------------------- queue without end
\* the handler that comes out of the settling delay with a valid file puts
\* its path on the queue in that step, however long the queue is
PutAppends ==
    hpc = "settling" /\ hpc' = "idle" /\ Validated(hpath) =>
        screenshot_queue' = Append(screenshot_queue, hpath)

\* the job of the path has come to its end, as Completed or as Error, and
\* the status record, when its write succeeded, says so
Processed(p) ==
    /\ wpc = "done" /\ screenshot_path = p
    /\ p \in Elems(runHist)
    /\ statusOutcome = "ok" =>
         /\ statusFile.filename = p
         /\ statusFile.status = (IF err = "" THEN "Completed" ELSE "Error")

\* C25: a put on screenshot_queue never blocks and never fails: the handler
\* that holds a valid file can always take its step, and the step appends
\* the path; without a shutdown, with provider calls that return, every
\* path on the queue is eventually taken off it and its job runs to
\* Completed or Error.
C25_QueuedIsProcessed ==
    /\ [](hpc = "settling" => ENABLED OnCreatedSettled)
    /\ [][PutAppends]_vars
    /\ \A p \in ScreenshotNames :
         (p \in Elems(screenshot_queue)) ~> Processed(p)

\* C25 witness: two paths were put on the queue while the first job ran, no
\* shutdown began, and the job of the second one has come to its end.
C25_Witness ==
    /\ mpc = "sleep"
    /\ Len(putHist) = 2 /\ None \notin Elems(putHist)
    /\ Len(runHist) = 2
    /\ Processed(putHist[2])
    /\ screenshot_queue = <<>>

InsertedByWrite ==
    inserted' # inserted =>
        /\ wpc = "log_write" /\ wpc' = "archive"
        /\ inserted' = Append(inserted, NewEntry(screenshot_path, answer))
        /\ answersFile' = File(NewContent(jobLog, screenshot_path, answer))

\* the provider answered and the write of the log succeeded
AnsweredAndWritten == err \in {"", "move error"}

\* the job that ended put exactly its one entry into the log
AddedOneEntry ==
    /\ inserted # <<>>
    /\ inserted[Len(inserted)] = NewEntry(screenshot_path, answer)
    /\ answersFile = File(NewContent(jobLog, screenshot_path, answer))

\* the job that ended put no entry into the log
AddedNoEntry ==
    /\ \A i \in DOMAIN inserted : ~EntryOf(inserted[i], screenshot_path)
    /\ answersFile = jobLog \/ (err = "log write error" /\ answersFile = File(<<>>))

\* after a move that failed the file is where it was, the archive is as the
\* job found it and the job's entry is in the log
MoveFailureFrame ==
    /\ screenshot_path \in DOMAIN watched
    /\ archive = jobArchive
    /\ AddedOneEntry

EntriesOfJobs ==
    /\ Len(inserted) <= Len(runHist)
    /\ wpc = "done" =>
         IF AnsweredAndWritten THEN AddedOneEntry ELSE AddedNoEntry

\* C27 as stated: a job adds at most one entry to the log, and exactly one
\* if and only if the provider answered and the write of the log succeeded;
\* after a move that failed behind the write the status is Error, the file
\* is in the watched directory and the entry is in the log.
C27_Original ==
    /\ EntriesOfJobs
    /\ wpc = "done" /\ err = "move error" =>
         statusFile.status = "Error" /\ MoveFailureFrame

\* C27 amended: a job adds at most one entry to the log, and exactly one if
\* and only if the provider answered and the write of the log succeeded;
\* after a move that failed behind the write the job has failed, the file is
\* in the watched directory, the entry is in the log, and the status record
\* is the job's Error record whenever the status write succeeded.
C27_OneEntryPerJob ==
    /\ [][InsertedByWrite]_vars
    /\ []EntriesOfJobs
    /\ [](wpc = "done" /\ err = "move error" =>
            /\ JobFailed
            /\ MoveFailureFrame
            /\ statusOutcome = "ok" => statusFile = ErrorRecord)

\* C27 witness: the move of the second job failed behind its write of the
\* log: both entries are in the log, the file is in the watched directory
\* and the status record says Error for it.
C27_Witness ==
    /\ wpc = "done" /\ err = "move error"
    /\ Len(runHist) = 2 /\ Len(inserted) = 2
    /\ MoveFailureFrame
    /\ statusOutcome = "ok" /\ statusFile = ErrorRecord

\* ------------------------------------------------------ insertions keep text
\* text `after' is text `before' with the block put in at one position
InsertedAtOnePosition(before, block, after) ==
    \E k \in 0..Len(before) :
        after = SubSeq(before, 1, k) \o block \o SubSeq(before, k + 1, Len(before))

\* every entry the log ever held, the old ones and the inserted ones
EverStored == Elems(StoredEntries)

EntriesStay ==
    answersFile.exists =>
        \A e \in EverStored : Find(answersFile.content, e) # -1

\* a write of the log that succeeds puts the entry into the text the job
\* found, at one position, and changes nothing else
WriteInsertsBlock ==
    wpc = "log_write" /\ wpc' = "archive" =>
        /\ jobLog.exists
        /\ InsertedAtOnePosition(jobLog.content, NewEntry(screenshot_path, answer),
                                 answersFile'.content)

\* C28: an insertion into the log removes and alters no text that was there:
\* outside the write itself the log holds every entry it ever held, whole,
\* after any sequence of insertions.
C28_EntriesStay == wpc # "log_write" => EntriesStay

\* the insertion that succeeds is an insertion at one position, and every
\* entry stays as long as no write has failed behind its truncation and the
\* log the first job found had a header
C28_UnlessWriteFails ==
    /\ [][WriteInsertsBlock]_vars
    /\ [](LogSettled /\ Find(log0.content, DELIM) # -1 => EntriesStay)

\* ------------------------------------------------- the default configuration
\* the file load_config wrote
DefaultFile == [exists |-> TRUE, value |-> DefaultConfig, writer |-> "load_config"]

\* load_config that returns without a file to read has written the default
\* to the file, and returns that default
DefaultWrittenOnLoad ==
    mpc = "load" /\ mpc' = "configure" /\ ~configFile.exists =>
        configFile' = DefaultFile /\ config' = DefaultConfig

\* the module, reading the values of the default it was given, exits
DefaultExits ==
    mpc = "configure" /\ configFile.writer = "load_config" => mpc' = "exit_1"

\* a process that holds a configuration from a file load_config wrote holds
\* the default, which is in the file, and has started nothing
DefaultInFileWhenUsed ==
    mpc \in {"configure", "exit_1"} /\ configFile.writer = "load_config" =>
        /\ configFile = DefaultFile
        /\ config.api_key = "" /\ config.provider = "openai"
        /\ NeverStarted

\* C29: when there is no configuration file at startup, load_config writes
\* the default configuration to it before any value of the configuration is
\* read; with that default, whose api key is empty, the process exits with
\* the missing api key and starts neither worker nor observer.
C29_DefaultWrittenThenExit ==
    /\ [][DefaultWrittenOnLoad]_vars
    /\ [][DefaultExits]_vars
    /\ []DefaultInFileWhenUsed
    /\ [](configFile.writer = "load_config" => mpc \in {"configure", "exit_1", "crashed"})

\* C29 witness: the process started without a configuration file, the file
\* now holds the default, and the process has exited at startup.
C29_Witness ==
    /\ mpc = "exit_1"
    /\ configFile = DefaultFile
    /\ config.api_key = ""
    /\ wpc = "unstarted" /\ observer = "unstarted"
====
